---- MODULE Spec2Model ----
(***************************************************************************)
(* speedplane: the scheduling engine (scheduler/scheduler.go), the         *)
(* WebSocket connection manager and the progress sessions of the streamed  *)
(* run (api/server.go).                                                    *)
(*                                                                         *)
(* Specifications.  Spec is the scheduler; SpecDue is shouldRun alone;     *)
(* SpecNext is NextRunInfo alone; SpecLock is check and runOnce step by    *)
(* step, with Scheduler.mu; SpecAlias is the slices and maps the scheduler *)
(* shares with its caller; SpecHub is the connection manager with its      *)
(* handlers and broadcasts; SpecStream is one request for /api/run/stream; *)
(* SpecHubLive is SpecHub with the cancellation of the root context and    *)
(* with fairness; SpecAPI is the requests that change the schedule list.   *)
(* Each one leaves the variables of the others at their initial values.    *)
(*                                                                         *)
(* Time.  A time.Time is modelled by the number of seconds since local     *)
(* midnight of 1 January EpochYear.  The location is one fixed-offset zone *)
(* (no daylight saving), so lastRun.In(loc) keeps the instant and the      *)
(* calendar fields Year/YearDay are computed from the instant.  The zero   *)
(* time.Time (year 1) is the instant ZeroTime, before every other instant  *)
(* of the model.                                                           *)
(*                                                                         *)
(* Strings.  The strings the code parses (Every, TimeOfDay) are sequences  *)
(* of one-character strings, parsed the way time.ParseDuration,            *)
(* strings.Split and strconv.Atoi parse them.  The alphabet of the model   *)
(* has no '.', and the units are s, m, h: durations are whole seconds.     *)
(***************************************************************************)
EXTENDS Integers, Sequences, FiniteSets, TLC

\* ------------------------------------------------------------------ bounds

\* The number of ticks the ticker delivers in a behaviour of Spec.
MaxTicks == 2

\* The number of times SpecDue advances the time of a shouldRun call.
MaxSteps == 2

\* The calendar year in which the model's time axis starts.
EpochYear == 2024

\* The number of slices and maps allocated after New in a behaviour of SpecAlias.
MaxAllocs == 3

\* The number of requests that change the schedule list in a behaviour of SpecAPI.
MaxRequests == 2

\* The number of WebSocket connections made in a behaviour of SpecHub.
MaxConns == 2

\* The number of calls of Broadcast in a behaviour of SpecHub.
MaxBroadcasts == 2

\* The number of times the runner of a streamed run calls its progress
\* callback in a behaviour of SpecStream.
MaxEvents == 11

\* The number of events a request for /api/run/progress/ receives in a
\* behaviour of SpecStream.
MaxObserved == 1

\* ------------------------------------------------------------------ strings

Digits == {"0", "1", "2", "3", "4", "5", "6", "7", "8", "9"}

DigitVal(c) ==
    CASE c = "0" -> 0 [] c = "1" -> 1 [] c = "2" -> 2 [] c = "3" -> 3
      [] c = "4" -> 4 [] c = "5" -> 5 [] c = "6" -> 6 [] c = "7" -> 7
      [] c = "8" -> 8 [] c = "9" -> 9

ParseErr == [ok |-> FALSE, val |-> 0]

ParseOk(v) == [ok |-> TRUE, val |-> v]

\* leadingInt of time/format.go: the leading [0-9]* of s and the rest.
RECURSIVE leadingInt(_, _)
leadingInt(s, acc) ==
    IF s # <<>> /\ Head(s) \in Digits
    THEN leadingInt(Tail(s), acc * 10 + DigitVal(Head(s)))
    ELSE [v |-> acc, rem |-> s]

\* The length of the unit at the head of s: up to the next digit.
RECURSIVE unitLen(_)
unitLen(s) ==
    IF s = <<>> \/ Head(s) \in Digits THEN 0 ELSE 1 + unitLen(Tail(s))

\* unitMap of time/format.go, in seconds; 0 stands for "no such unit".
unitMap(u) ==
    CASE u = <<"s">> -> 1
      [] u = <<"m">> -> 60
      [] u = <<"h">> -> 60 * 60
      [] OTHER -> 0

\* The loop of time.ParseDuration: ([0-9]+[a-z]+)+ summed up.
RECURSIVE parseTerms(_, _)
parseTerms(s, d) ==
    IF s = <<>> THEN ParseOk(d)
    ELSE IF Head(s) \notin Digits THEN ParseErr
    ELSE LET li == leadingInt(s, 0)
             i  == unitLen(li.rem)
             u  == SubSeq(li.rem, 1, i)
             rest == SubSeq(li.rem, i + 1, Len(li.rem))
         IN  IF i = 0 THEN ParseErr
             ELSE IF unitMap(u) = 0 THEN ParseErr
             ELSE parseTerms(rest, d + li.v * unitMap(u))

\* time.ParseDuration: [-+]?([0-9]+[a-z]+)+, with "0" alone as zero.
ParseDuration(s0) ==
    LET signed == s0 # <<>> /\ Head(s0) \in {"-", "+"}
        neg == signed /\ Head(s0) = "-"
        s   == IF signed THEN Tail(s0) ELSE s0
    IN  IF s = <<"0">> THEN ParseOk(0)
        ELSE IF s = <<>> THEN ParseErr
        ELSE LET r == parseTerms(s, 0)
             IN  IF r.ok /\ neg THEN ParseOk(0 - r.val) ELSE r

\* strconv.Atoi: [-+]?[0-9]+ in base 10.
Atoi(s0) ==
    LET signed == s0 # <<>> /\ Head(s0) \in {"-", "+"}
        neg == signed /\ Head(s0) = "-"
        s   == IF signed THEN Tail(s0) ELSE s0
        li  == leadingInt(s, 0)
    IN  IF s = <<>> \/ li.rem # <<>> THEN ParseErr
        ELSE ParseOk(IF neg THEN 0 - li.v ELSE li.v)

\* strings.Split(s, sep) for a one-character sep: the fields between the
\* separators, in order (one field, the empty one, for the empty string).
RECURSIVE splitFrom(_, _, _)
splitFrom(s, sep, cur) ==
    IF s = <<>> THEN <<cur>>
    ELSE IF Head(s) = sep THEN <<cur>> \o splitFrom(Tail(s), sep, <<>>)
    ELSE splitFrom(Tail(s), sep, Append(cur, Head(s)))

Split(s, sep) == splitFrom(s, sep, <<>>)

\* ------------------------------------------------------------------ time

SecondsPerDay == 24 * 60 * 60

ZeroTime == -1

IsZero(t) == t = ZeroTime

IsLeap(y) == (y % 4 = 0 /\ y % 100 # 0) \/ y % 400 = 0

DaysIn(y) == IF IsLeap(y) THEN 366 ELSE 365

\* The civil date of day number d (0 = 1 January of year y).
RECURSIVE civil(_, _)
civil(d, y) ==
    IF d < DaysIn(y) THEN [year |-> y, yday |-> d + 1]
    ELSE civil(d - DaysIn(y), y + 1)

Year(t) == civil(t \div SecondsPerDay, EpochYear).year

YearDay(t) == civil(t \div SecondsPerDay, EpochYear).yday

\* The days from 1 January EpochYear to 1 January of year y.
RECURSIVE daysBefore(_)
daysBefore(y) == IF y <= EpochYear THEN 0 ELSE daysBefore(y - 1) + DaysIn(y - 1)

\* time.Date(year, month, day, hour, min, 0, 0, loc), the month and day
\* given as the day of the year.
Date(year, yday, hour, min) ==
    (daysBefore(year) + yday - 1) * SecondsPerDay + hour * 60 * 60 + min * 60

\* ------------------------------------------------------------------ schedules

ScheduleInterval == "interval"

ScheduleDaily == "daily"

\* model.Schedule (Name has no part in scheduling and is left out).
Schedule(id, enabled, type, every, timeOfDay) ==
    [ID |-> id, Enabled |-> enabled, Type |-> type,
     Every |-> every, TimeOfDay |-> timeOfDay]

intervalDueStrict(lastRun, now, dur) ==
    IF IsZero(lastRun) THEN TRUE ELSE now - lastRun > dur

intervalDueNeverFirst(lastRun, now, dur) ==
    IF IsZero(lastRun) THEN FALSE ELSE now - lastRun >= dur

\* The Interval case once the duration is parsed: due when never run, or
\* when now.Sub(lastRun) >= dur.
intervalDue(lastRun, now, dur) ==
    IF IsZero(lastRun) THEN TRUE ELSE now - lastRun >= dur

\* The range check on the parsed hour and minute.
clockInRange(hour, min) == ~(hour < 0 \/ hour > 23 \/ min < 0 \/ min > 59)

sameDayOfYear(a, b) == YearDay(a) = YearDay(b)

sameInstant(a, b) == a = b

sameDay(a, b) == Year(a) = Year(b) /\ YearDay(a) = YearDay(b)

shouldRun(sc, lastRun, now) ==
    CASE sc.Type = ScheduleInterval ->
           IF sc.Every = <<>> THEN FALSE
           ELSE LET dur == ParseDuration(sc.Every)
                IN  IF ~dur.ok \/ dur.val <= 0 THEN FALSE
                    ELSE intervalDue(lastRun, now, dur.val)
      [] sc.Type = ScheduleDaily ->
           IF sc.TimeOfDay = <<>> THEN FALSE
           ELSE LET parts == Split(sc.TimeOfDay, ":")
                IN  IF Len(parts) < 2 THEN FALSE
                    ELSE LET hour == Atoi(parts[1])
                             min  == Atoi(parts[2])
                         IN  IF ~hour.ok \/ ~min.ok \/ ~clockInRange(hour.val, min.val)
                             THEN FALSE
                             ELSE LET target == Date(Year(now), YearDay(now),
                                                     hour.val, min.val)
                                  IN  IF now < target THEN FALSE
                                      ELSE IF ~IsZero(lastRun) /\ sameDay(lastRun, now)
                                      THEN FALSE
                                      ELSE TRUE
      [] OTHER -> FALSE

\* ------------------------------------------------------------------ state

VARIABLES
    schedules,        \* Scheduler.schedules: a sequence of Schedule records
    lastRun,          \* Scheduler.lastRun: a map from schedule id to time
    onUpdate,         \* Scheduler.onUpdate is set (not nil)
    onComplete,       \* Scheduler.onComplete is set (not nil)
    started,          \* Start has been called
    now,              \* the time of the last tick (of Start, before the first)
    ticks,            \* the number of ticks delivered
    stopped,          \* the context of Start is cancelled
    inflight,         \* the runOnce goroutines that have not returned
    launched,         \* history: <<id, now>> of every `go s.runOnce(ctx, id, now)`
    updateCalls,      \* history: the number of calls of the onUpdate hook
    completeCalls,    \* history: the number of calls of the onComplete hook
    failed,           \* history: <<id, now>> of every run the log reports as failed
    ev,               \* one call of shouldRun (SpecDue) or of NextRunInfo (SpecNext)
    \* The objects the Scheduler and its caller hold references to (SpecAlias)
    heap,             \* the contents of every slice backing array and map, by address
    pSchedules,       \* the address of the backing array of Scheduler.schedules
    pLastRun,         \* the address of the map Scheduler.lastRun
    held,             \* the references the caller holds: [addr, from]
    \* The WSConnectionManager and the goroutines that use it (SpecHub)
    connections,      \* WSConnectionManager.connections: the registered connections
    wmu,              \* connWithMutex.mu of each connection: its holder, or Nobody
    handler,          \* handleWebSocket of each connection: where it is
    bcast,            \* each Broadcast call: [pc, conns, i, failed]
    writing,          \* the calls of conn.WriteJSON in progress: [conn, by]
    delivered,        \* history: the messages of each Broadcast written to each connection
    \* One request for /api/run/stream and its progress session (SpecStream)
    sessions,         \* progressTracker.sessions: the ids that have a channel
    progressCh,       \* the events buffered in the session's channel
    chClosed,         \* the session's channel is closed
    resultCh,         \* the values buffered in resultCh
    clientGone,       \* the client of the streaming response has disconnected
    run,              \* the goroutine of the run: [pc, n, out]
    strm,             \* handleRunStream: where it is
    written,          \* the events written to the streaming response
    obs,              \* a request for /api/run/progress/{id}: [pc, got]
    \* Scheduler.mu and the goroutines that take it (SpecLock)
    mu,               \* the holder of Scheduler.mu, or Nobody
    chk,              \* check: where it is, and its locals scheds and last
    \* the schedules API (SpecAPI)
    api               \* the requests for /api/schedules: [pc, method, cur]

\* The variables of the slices and maps shared with the caller.
aliasVars == <<heap, pSchedules, pLastRun, held>>

\* The variables of the connection registry.
hubVars == <<connections, wmu, handler, bcast, writing, delivered>>

\* The variables of the progress session.
streamVars == <<sessions, progressCh, chClosed, resultCh, clientGone, run, strm,
                written, obs>>

\* The variables outside the Scheduler's own state.
outerVars == <<aliasVars, hubVars, streamVars, mu, chk, api>>

vars == <<schedules, lastRun, onUpdate, onComplete, started, now, ticks, stopped, inflight,
          launched, updateCalls, completeCalls, failed, ev, outerVars>>

schedVars == <<schedules, lastRun, onUpdate, onComplete, started, now, ticks,
               stopped, inflight, launched, updateCalls, completeCalls, failed>>

\* The ticker period of Start, in seconds.
TickPeriod == 30

\* ------------------------------------------------------------------ inputs

Chars(h1, h2, m1, m2) == <<h1, h2, ":", m1, m2>>

EveryMinute == <<"1", "m">>

IntervalA == Schedule("a", TRUE, ScheduleInterval, EveryMinute, <<>>)

IntervalAOff == Schedule("a", FALSE, ScheduleInterval, EveryMinute, <<>>)

DailyLate == Schedule("b", TRUE, ScheduleDaily, <<>>, Chars("2", "3", "5", "9"))

DailyMidnight == Schedule("b", TRUE, ScheduleDaily, <<>>, Chars("0", "0", "0", "0"))

NoID == Schedule("", TRUE, ScheduleInterval, EveryMinute, <<>>)

\* The lists the configuration file holds at start and the API passes to
\* SetSchedules.
ScheduleLists ==
    { <<IntervalA>>, <<DailyLate>>, <<IntervalAOff, NoID, DailyMidnight>> }

\* 23:59:00 on the last day of EpochYear.
LastMinute == Date(EpochYear, DaysIn(EpochYear), 23, 59)

\* The times at which the process is started: the first ticks are at
\* 23:59:00 and 23:59:30 of one day, or at 23:59:30 and at 00:00:00 of the
\* next day (and year).
StartTimes == {LastMinute - TickPeriod, LastMinute}

EmptyMap == [k \in {} |-> ZeroTime]

\* The last_run maps the configuration file holds at start.
InitialLastRuns ==
    { EmptyMap,
      [k \in {"a", "b"} |->
          IF k = "a" THEN LastMinute - TickPeriod ELSE LastMinute - SecondsPerDay] }

\* ------------------------------------------------------------------ Scheduler

\* last[sc.ID] of a Go map: the zero value for a key that is not there.
LastRunOf(last, id) == IF id \in DOMAIN last THEN last[id] ELSE ZeroTime

\* s.lastRun[id] = t
Put(last, id, t) == [k \in DOMAIN last \cup {id} |-> IF k = id THEN t ELSE last[k]]

launchableWithID(sc) == ~(sc.ID = "")

\* The guard of check's loop: `if !sc.Enabled || sc.ID == "" { continue }`.
launchable(sc) == ~(~sc.Enabled \/ sc.ID = "")

stampCompletion(trigger, clock) == clock

\* The time runOnce stores in lastRun: its parameter now, the tick's time
\* (clock is the time at which the run completes).
stamp(trigger, clock) == trigger

dueIdsNotInFlight(scheds, last, runs, t) ==
    { scheds[i].ID : i \in { j \in 1..Len(scheds) :
          /\ launchable(scheds[j])
          /\ shouldRun(scheds[j], LastRunOf(last, scheds[j].ID), t)
          /\ \A r \in runs : r.id # scheds[j].ID } }

\* The schedules of the snapshot that check launches at tick time t.
dueIds(scheds, last, runs, t) ==
    { scheds[i].ID : i \in { j \in 1..Len(scheds) :
          /\ launchable(scheds[j])
          /\ shouldRun(scheds[j], LastRunOf(last, scheds[j].ID), t) } }

\* The goroutine `go s.runOnce(ctx, id, now)`, about to call the runner.
\* result, doneAt, hU and hC are the locals result, the time at which the
\* runner returned, onUpdate and onComplete, set when the runner returns.
NewRun(id, t) ==
    [id |-> id, trigger |-> t, pc |-> "runner", result |-> "none",
     doneAt |-> ZeroTime, hU |-> FALSE, hC |-> FALSE]

loopReadyWhenIdle(runs) == runs = {}

\* Whether the loop of Start can take the next tick while `runs` are in flight.
loopReady(runs) == TRUE

\* No slice or map is tracked by address.
AliasIdle ==
    /\ heap = <<>>
    /\ pSchedules = 0
    /\ pLastRun = 0
    /\ held = {}

\* The connections that can be made, and the Broadcast calls.
Conns == 1..MaxConns

Broadcasts == 1..MaxBroadcasts

\* The value of a mutex nobody holds.
Nobody == <<"nobody", 0>>

\* The requests for /api/schedules and /api/schedules/{id} that are served.
Requests == 1..MaxRequests

\* A request that has not arrived.
NoRequest == [pc |-> "idle", method |-> "none", cur |-> <<>>]

\* NewWSConnectionManager(): no connection is registered, no request for
\* /ws has been served and Broadcast has not been called.
HubIdle ==
    /\ connections = {}
    /\ wmu = [c \in Conns |-> Nobody]
    /\ handler = [c \in Conns |-> "new"]
    /\ bcast = [b \in Broadcasts |->
                    [pc |-> "idle", conns |-> <<>>, i |-> 1, failed |-> {}]]
    /\ writing = {}
    /\ delivered = [b \in Broadcasts |-> [c \in Conns |-> 0]]

\* newProgressTracker(): no session; no request for /api/run/stream or for
\* /api/run/progress/ has been served.
StreamIdle ==
    /\ sessions = {}
    /\ progressCh = <<>>
    /\ chClosed = FALSE
    /\ resultCh = <<>>
    /\ clientGone = FALSE
    /\ run = [pc |-> "idle", n |-> 0, out |-> "none"]
    /\ strm = "idle"
    /\ written = <<>>
    /\ obs = [pc |-> "idle", got |-> <<>>]

\* Nothing outside the Scheduler's own state is in use, the Scheduler's
\* lock is free and check is not running.
OuterIdle ==
    /\ AliasIdle /\ HubIdle /\ StreamIdle
    /\ mu = Nobody
    /\ chk = [pc |-> "idle", scheds |-> <<>>, last |-> EmptyMap, i |-> 1]
    /\ api = [r \in Requests |-> NoRequest]

NoEval == [sc |-> IntervalA, lastRun |-> ZeroTime, now |-> 0, called |-> FALSE,
           ret |-> FALSE, recorded |-> FALSE, n |-> 0]

Init ==
    /\ schedules \in ScheduleLists
    /\ lastRun \in InitialLastRuns
    /\ onUpdate = FALSE
    /\ onComplete = FALSE
    /\ started = FALSE
    /\ now \in StartTimes
    /\ ticks = 0
    /\ stopped = FALSE
    /\ inflight = {}
    /\ launched = {}
    /\ updateCalls = 0
    /\ completeCalls = 0
    /\ failed = {}
    /\ ev = NoEval
    /\ OuterIdle

\* main installs the hooks between New and Start.
SetOnUpdate(fn) ==
    /\ ~started
    /\ onUpdate' = fn
    /\ UNCHANGED <<schedules, lastRun, onComplete, started, now, ticks, stopped, inflight,
                   launched, updateCalls, completeCalls, failed, ev, outerVars>>

SetOnComplete(fn) ==
    /\ ~started
    /\ onComplete' = fn
    /\ UNCHANGED <<schedules, lastRun, onUpdate, started, now, ticks, stopped, inflight,
                   launched, updateCalls, completeCalls, failed, ev, outerVars>>

\* Start: the goroutine of the tick loop is launched.
Start ==
    /\ ~started
    /\ started' = TRUE
    /\ UNCHANGED <<schedules, lastRun, onUpdate, onComplete, now, ticks, stopped,
                   inflight, launched, updateCalls, completeCalls, failed,
                   ev, outerVars>>

\* One iteration of the loop of Start: `case now := <-ticker.C: s.check(ctx, now)`.
\* check copies the list and the map under the lock and launches one
\* goroutine for each due schedule of the copy.
Tick ==
    /\ started
    /\ ~stopped
    /\ ticks < MaxTicks
    /\ loopReady(inflight)
    /\ LET t == now + TickPeriod
           ids == dueIds(schedules, lastRun, inflight, t)
       IN  /\ now' = t
           /\ inflight' = inflight \cup
                  { NewRun(i, t) : i \in ids }
           /\ launched' = launched \cup { <<i, t>> : i \in ids }
           /\ ticks' = ticks + 1
    /\ UNCHANGED <<schedules, lastRun, onUpdate, onComplete, started, stopped,
                   updateCalls, completeCalls, failed, ev, outerVars>>

\* `case <-ctx.Done(): return` of the loop of Start.
Stop ==
    /\ started
    /\ ~stopped
    /\ stopped' = TRUE
    /\ UNCHANGED <<schedules, lastRun, onUpdate, onComplete, started, now, ticks, inflight,
                   launched, updateCalls, completeCalls, failed, ev, outerVars>>

RunFailsFallThrough(r) ==
    /\ r \in inflight /\ r.pc = "runner"
    /\ lastRun' = Put(lastRun, r.id, r.trigger)
    /\ inflight' = inflight \ {r}
    /\ failed' = failed \cup {<<r.id, r.trigger>>}
    /\ UNCHANGED <<schedules, onUpdate, onComplete, started, now, ticks, stopped,
                   launched, updateCalls, completeCalls, ev, outerVars>>

\* runOnce: the runner returns an error, which is logged.
RunFails(r) ==
    /\ r \in inflight /\ r.pc = "runner"
    /\ inflight' = inflight \ {r}
    /\ failed' = failed \cup {<<r.id, r.trigger>>}
    /\ UNCHANGED <<schedules, lastRun, onUpdate, onComplete, started, now, ticks, stopped,
                   launched, updateCalls, completeCalls, ev, outerVars>>

\* runOnce: the runner returns a result (or nil) and no error; under the lock
\* lastRun[id] is set and the two hooks are read.
RunSucceeds(r, res) ==
    /\ r \in inflight /\ r.pc = "runner"
    /\ lastRun' = Put(lastRun, r.id, stamp(r.trigger, now))
    /\ inflight' = (inflight \ {r}) \cup
           {[r EXCEPT !.pc = "onUpdate", !.result = res, !.doneAt = now,
                      !.hU = onUpdate, !.hC = onComplete]}
    /\ UNCHANGED <<schedules, onUpdate, onComplete, started, now, ticks, stopped,
                   launched, updateCalls, completeCalls, failed, ev, outerVars>>

\* runOnce: `if onUpdate != nil { onUpdate() }`, outside the lock.
CallOnUpdate(r) ==
    /\ r \in inflight /\ r.pc = "onUpdate"
    /\ updateCalls' = IF r.hU THEN updateCalls + 1 ELSE updateCalls
    /\ inflight' = (inflight \ {r}) \cup {[r EXCEPT !.pc = "onComplete"]}
    /\ UNCHANGED <<schedules, lastRun, onUpdate, onComplete, started, now, ticks, stopped,
                   launched, completeCalls, failed, ev, outerVars>>

CallOnCompleteNilToo(r) ==
    /\ r \in inflight /\ r.pc = "onComplete"
    /\ completeCalls' = IF r.hC THEN completeCalls + 1 ELSE completeCalls
    /\ inflight' = inflight \ {r}
    /\ UNCHANGED <<schedules, lastRun, onUpdate, onComplete, started, now, ticks, stopped,
                   launched, updateCalls, failed, ev, outerVars>>

\* runOnce: `if onComplete != nil && result != nil { onComplete(result) }`,
\* and the goroutine returns.
CallOnComplete(r) ==
    /\ r \in inflight /\ r.pc = "onComplete"
    /\ completeCalls' = IF r.hC /\ r.result # "nil" THEN completeCalls + 1
                        ELSE completeCalls
    /\ inflight' = inflight \ {r}
    /\ UNCHANGED <<schedules, lastRun, onUpdate, onComplete, started, now, ticks, stopped,
                   launched, updateCalls, failed, ev, outerVars>>

SetSchedulesResetLastRun(scheds) ==
    /\ schedules' = scheds
    /\ lastRun' = EmptyMap
    /\ UNCHANGED <<onUpdate, onComplete, started, now, ticks, stopped, inflight,
                   launched, updateCalls, completeCalls, failed, ev, outerVars>>

\* SetSchedules: the list is replaced by a copy of the argument; lastRun is
\* kept ("Don't reset lastRun - preserve it").
SetSchedules(scheds) ==
    /\ schedules' = scheds
    /\ UNCHANGED <<lastRun, onUpdate, onComplete, started, now, ticks, stopped, inflight,
                   launched, updateCalls, completeCalls, failed, ev, outerVars>>

Next ==
    \/ \E fn \in BOOLEAN : SetOnUpdate(fn)
    \/ \E fn \in BOOLEAN : SetOnComplete(fn)
    \/ Start
    \/ Tick
    \/ Stop
    \/ \E r \in inflight : RunFails(r)
    \/ \E r \in inflight : \E res \in {"result", "nil"} : RunSucceeds(r, res)
    \/ \E r \in inflight : CallOnUpdate(r)
    \/ \E r \in inflight : CallOnComplete(r)
    \/ \E scheds \in ScheduleLists : SetSchedules(scheds)

Spec == Init /\ [][Next]_vars

\* ------------------------------------------------------------------ shouldRun alone

Every30m == <<"3", "0", "m">>

Every1h30m == <<"1", "h", "3", "0", "m">>

\* Strings time.ParseDuration turns into a positive duration.
ValidEvery == {Every30m, EveryMinute, Every1h30m}

\* Empty, unparsable (no unit, no number, unknown unit) and non-positive.
BadEvery ==
    { <<>>, <<"x">>, <<"3", "0">>, <<"m">>, <<"3", "0", "x">>,
      <<"0">>, <<"0", "s">>, <<"-">> \o Every30m }

T1430 == Chars("1", "4", "3", "0")

T0000 == Chars("0", "0", "0", "0")

T2359 == Chars("2", "3", "5", "9")

\* Strings of the form HH:MM with HH in 00..23 and MM in 00..59.
ValidTimes == {T1430, T0000, T2359}

\* Strings that are not of the form HH:MM which shouldRun rejects ...
RejectedTimes ==
    { <<>>, <<"1", "4", "3", "0">>, <<"1", "4", ":">>, <<":", "3", "0">>,
      Chars("2", "4", "0", "0"), Chars("1", "4", "6", "0"),
      Chars("a", "b", "c", "d"), <<"-", "1", ":", "3", "0">> }

\* ... and strings that are not of the form HH:MM either: a third field.
TrailingTimes == { T1430 \o <<":", "x">>, T1430 \o <<":", "5", "9">> }

BadTimes == RejectedTimes \cup TrailingTimes

\* The schedules shouldRun is called with.
DueSchedules ==
    { Schedule("a", TRUE, ScheduleInterval, e, <<>>) : e \in ValidEvery \cup BadEvery }
    \cup { Schedule("a", TRUE, ScheduleDaily, <<>>, t) : t \in ValidTimes \cup BadTimes }
    \cup { Schedule("a", TRUE, ScheduleInterval, <<>>, T1430),
           Schedule("a", TRUE, ScheduleDaily, Every30m, <<>>),
           Schedule("a", TRUE, "weekly", Every30m, T1430),
           Schedule("a", TRUE, "", Every30m, T1430) }

\* 14:31 on 1 January of the year after EpochYear.
Afternoon == Date(EpochYear + 1, 1, 14, 31)

\* The times `now` of the first call: 14:29 and 14:31.
DueNows == {Afternoon - 2 * 60, Afternoon}

\* The lastRun of the first call: unset; 29, 30 and 31 minutes before now;
\* a day before now; the same day of the year a year before now.
DueLastRuns(t) ==
    { ZeroTime, t - 29 * 60, t - 30 * 60, t - 31 * 60, t - SecondsPerDay,
      t - DaysIn(EpochYear) * SecondsPerDay }

\* The steps by which the time of the next call advances: a tick, four
\* minutes, and to four minutes before the same time of the next day.
Deltas == {TickPeriod, 4 * 60, SecondsPerDay - 4 * 60}

InitDue ==
    /\ schedules = <<>>
    /\ lastRun = EmptyMap
    /\ onUpdate = FALSE
    /\ onComplete = FALSE
    /\ started = FALSE
    /\ now = LastMinute
    /\ ticks = 0
    /\ stopped = FALSE
    /\ inflight = {}
    /\ launched = {}
    /\ updateCalls = 0
    /\ completeCalls = 0
    /\ failed = {}
    /\ OuterIdle
    /\ \E sc \in DueSchedules : \E t \in DueNows : \E l \in DueLastRuns(t) :
          ev = [sc |-> sc, lastRun |-> l, now |-> t, called |-> FALSE,
                ret |-> FALSE, recorded |-> FALSE, n |-> 0]

\* ret := shouldRun(sc, lastRun, now)
EvalShouldRun ==
    /\ ~ev.called
    /\ ev' = [ev EXCEPT !.called = TRUE,
                        !.ret = shouldRun(ev.sc, ev.lastRun, ev.now)]
    /\ UNCHANGED <<schedVars, outerVars>>

\* After a true evaluation, lastRun is set to the now of that evaluation.
RecordRun ==
    /\ ev.called /\ ev.ret
    /\ ev' = [ev EXCEPT !.called = FALSE, !.lastRun = ev.now, !.recorded = TRUE]
    /\ UNCHANGED <<schedVars, outerVars>>

\* The next call is made at a later time.
Advance(d) ==
    /\ ev.n < MaxSteps
    /\ ev' = [ev EXCEPT !.called = FALSE, !.now = ev.now + d,
                        !.recorded = FALSE, !.n = ev.n + 1]
    /\ UNCHANGED <<schedVars, outerVars>>

NextDue ==
    \/ EvalShouldRun
    \/ RecordRun
    \/ \E d \in Deltas : Advance(d)

SpecDue == InitDue /\ [][NextDue]_vars

\* ------------------------------------------------------------------ claims

\* Whether two instants fall on one calendar day, by the number of the day.
SameCalendarDay(a, b) == a \div SecondsPerDay = b \div SecondsPerDay

\* A step of Spec that delivers a tick.
TickStep == now' # now

\* The runs a step launches.
Launches == launched' \ launched

\* The runs whose runner returns an error in a step.
Failures == failed' \ failed

\* The schedules of the list with the given id.
WithID(id) == { schedules[i] : i \in { j \in 1..Len(schedules) : schedules[j].ID = id } }

\* C1, first part: a step in which a run fails changes neither the LastRun
\* table nor the schedule list and calls neither hook.
C1_NoMutation ==
    Failures # {} => UNCHANGED <<lastRun, schedules, updateCalls, completeCalls>>

\* C1 as stated: a step in which a run fails mutates nothing, and a schedule
\* a run of which has failed, and which the list and the LastRun table still
\* make due at that run's tick time, is launched again by every later tick.
C1_FailedRunRetriedEveryTick ==
    [][/\ C1_NoMutation
       /\ TickStep =>
            \A f \in failed : \A sc \in WithID(f[1]) :
                (sc.Enabled /\ shouldRun(sc, LastRunOf(lastRun, sc.ID), f[2]))
                    => <<sc.ID, now'>> \in launched']_vars

\* C1 as amended: a step in which a run fails mutates nothing, and the
\* schedule is launched again by every later tick, for a Daily schedule by
\* every later tick on the calendar day of the failed run's tick.
C1_FailedRunRetried ==
    [][/\ C1_NoMutation
       /\ TickStep =>
            \A f \in failed : \A sc \in WithID(f[1]) :
                (/\ sc.Enabled
                 /\ shouldRun(sc, LastRunOf(lastRun, sc.ID), f[2])
                 /\ sc.Type = ScheduleDaily => SameCalendarDay(f[2], now'))
                    => <<sc.ID, now'>> \in launched']_vars

\* C1 witness: a run of a schedule has failed and a later tick has launched
\* the schedule again, LastRun holding no time of a run of it.
C1_Witness ==
    \E f \in failed : \E l \in launched :
        /\ l[1] = f[1] /\ l[2] > f[2]
        /\ LastRunOf(lastRun, f[1]) < f[2]
        /\ updateCalls = 0 /\ completeCalls = 0

\* C2: when the runner of a run returns without error, LastRun[id] becomes
\* the time of the tick that launched the run.
C2_LastRunIsTriggerTime ==
    [][\A r \in inflight :
          (r.pc = "runner" /\
           \E r2 \in inflight' :
               r2.id = r.id /\ r2.trigger = r.trigger /\ r2.pc = "onUpdate")
              => LastRunOf(lastRun', r.id) = r.trigger]_vars

\* C2 witness: a run completed after a later tick than the one that launched
\* it, and LastRun[id] is the time of the tick that launched it.
C2_Witness ==
    \E r \in inflight :
        /\ r.pc = "onUpdate"
        /\ r.doneAt > r.trigger
        /\ LastRunOf(lastRun, r.id) = r.trigger

\* The duration a string of ValidEvery stands for, in seconds.
SecondsOf(e) ==
    CASE e = Every30m -> 30 * 60
      [] e = EveryMinute -> 60
      [] e = Every1h30m -> 90 * 60

\* The duration the parsable strings of BadEvery stand for, in seconds.
NonPositiveSecondsOf(e) ==
    CASE e = <<"0">> -> 0
      [] e = <<"0", "s">> -> 0
      [] e = <<"-">> \o Every30m -> 0 - 30 * 60

\* A call of shouldRun for an Interval schedule has returned.
IntervalCall == ev.called /\ ev.sc.Type = ScheduleInterval

\* C3 as stated: for every Interval schedule whose every is a duration and
\* whose LastRun is set, shouldRun is true iff now - lastRun >= every.
C3_IntervalDueIff ==
    (IntervalCall /\ ~IsZero(ev.lastRun)) =>
        /\ ev.sc.Every \in ValidEvery =>
              (ev.ret <=> ev.now - ev.lastRun >= SecondsOf(ev.sc.Every))
        /\ ev.sc.Every \in {<<"0">>, <<"0", "s">>, <<"-">> \o Every30m} =>
              (ev.ret <=> ev.now - ev.lastRun >= NonPositiveSecondsOf(ev.sc.Every))

\* C3 as amended: for every Interval schedule whose every is a positive
\* duration and whose LastRun is set, shouldRun is true iff
\* now - lastRun >= every; it is false right after a true evaluation
\* followed by setting LastRun to that now.
C3_ValidIntervalDueIff ==
    (IntervalCall /\ ~IsZero(ev.lastRun) /\ ev.sc.Every \in ValidEvery) =>
        /\ ev.ret <=> ev.now - ev.lastRun >= SecondsOf(ev.sc.Every)
        /\ ev.recorded => ~ev.ret

\* C3 witness: every = 30m was due, LastRun was set to that now, and the
\* next evaluation at that now is false.
C3_Witness ==
    /\ IntervalCall /\ ev.sc.Every = Every30m
    /\ ev.recorded /\ ~ev.ret

\* A call of shouldRun for a Daily schedule has returned.
DailyCall == ev.called /\ ev.sc.Type = ScheduleDaily

\* The time of day a string of ValidTimes stands for, in seconds.
SecondOfDay(t) ==
    CASE t = T1430 -> 14 * 3600 + 30 * 60
      [] t = T0000 -> 0
      [] t = T2359 -> 23 * 3600 + 59 * 60

\* C4: for every Daily schedule with a valid timeOfDay, shouldRun is true
\* iff now >= today's target and lastRun is unset or on another calendar day.
C4_DailyDueIff ==
    (DailyCall /\ ev.sc.TimeOfDay \in ValidTimes) =>
        (ev.ret <=>
            /\ ev.now >= ev.now - (ev.now % SecondsPerDay) + SecondOfDay(ev.sc.TimeOfDay)
            /\ (IsZero(ev.lastRun) \/ ~SameCalendarDay(ev.lastRun, ev.now)))

\* C4 witness: the 14:30 schedule was due at 14:31, LastRun was set to 14:31,
\* and the schedule is due again at 14:31 of the next day.
C4_Witness ==
    /\ DailyCall /\ ev.sc.TimeOfDay = T1430
    /\ ev.lastRun = Afternoon
    /\ ev.now = Afternoon + SecondsPerDay
    /\ ev.ret

\* C5 as stated: a tick never launches a Daily schedule that an earlier tick
\* of the same calendar day has launched.
C5_OneLaunchPerDay ==
    [][TickStep =>
          \A l \in Launches : \A sc \in WithID(l[1]) :
              sc.Type = ScheduleDaily =>
                  \A l0 \in launched :
                      l0[1] = l[1] => ~SameCalendarDay(l0[2], l[2])]_vars

\* C5 as amended: a tick never launches a Daily schedule whose LastRun entry
\* is a time of the tick's calendar day.
C5_NoLaunchOnceRecorded ==
    [][TickStep =>
          \A l \in Launches : \A sc \in WithID(l[1]) :
              sc.Type = ScheduleDaily =>
                  \/ IsZero(LastRunOf(lastRun, l[1]))
                  \/ ~SameCalendarDay(LastRunOf(lastRun, l[1]), l[2])]_vars

\* C5 witness: a Daily schedule whose target time has passed was launched and
\* completed on the day of the last tick, and the last tick did not launch it.
C5_Witness ==
    \E sc \in WithID("b") :
        /\ sc = DailyLate
        /\ <<"b", now - TickPeriod>> \in launched
        /\ LastRunOf(lastRun, "b") = now - TickPeriod
        /\ SameCalendarDay(now - TickPeriod, now)
        /\ <<"b", now>> \notin launched
        /\ ticks = MaxTicks

\* C6: a tick launches a due schedule also while an earlier run of that
\* schedule is still in its runner.
C6_NoDeduplication ==
    [][TickStep =>
          \A r \in inflight : \A sc \in WithID(r.id) :
              (/\ r.pc = "runner"
               /\ sc.Enabled
               /\ shouldRun(sc, LastRunOf(lastRun, sc.ID), now'))
                  => <<sc.ID, now'>> \in launched']_vars

\* C6 witness: two runs of one schedule id are in their runners at once.
C6_Witness ==
    \E r1 \in inflight : \E r2 \in inflight :
        /\ r1.id = r2.id /\ r1.trigger < r2.trigger
        /\ r1.pc = "runner" /\ r2.pc = "runner"

\* C7: as long as the loop runs, the next tick can be processed, whatever
\* runs are in flight.
C7_TickNeverWaits ==
    (started /\ ~stopped /\ ticks < MaxTicks) => ENABLED Tick

\* C7 witness: a tick was processed while a run launched by an earlier tick
\* was still in its runner.
C7_Witness ==
    \E r \in inflight :
        /\ r.pc = "runner" /\ r.trigger < now
        /\ \E r2 \in inflight : r2.trigger = now

\* A schedule of the shapes the specification calls malformed.
Malformed(sc) ==
    \/ sc.Type = ScheduleInterval /\ sc.Every \in BadEvery
    \/ sc.Type = ScheduleDaily /\ sc.TimeOfDay \in BadTimes
    \/ sc.Type \notin {ScheduleInterval, ScheduleDaily}

\* C8: a schedule with malformed parameters is never due.
C8_MalformedNeverDue ==
    (ev.called /\ Malformed(ev.sc)) => ~ev.ret

\* C9: every run a tick launches is of a schedule of the list that is enabled.
C9_DisabledNeverLaunched ==
    [][TickStep =>
          \A l \in Launches : \E sc \in WithID(l[1]) : sc.Enabled]_vars

\* C9 witness: the last tick found a disabled schedule that was due by its
\* type, parameters and LastRun, and launched nothing.
C9_Witness ==
    /\ ticks > 0
    /\ \E sc \in WithID("a") :
          /\ ~sc.Enabled
          /\ shouldRun(sc, LastRunOf(lastRun, "a"), now)
    /\ \A l \in launched : l[2] # now

\* C10 as stated: for every Interval schedule with unset LastRun, shouldRun
\* is true.
C10_NeverRunIsDue ==
    (IntervalCall /\ IsZero(ev.lastRun)) => ev.ret

\* C10 as amended: for every Interval schedule whose every is a positive
\* duration, with unset LastRun, shouldRun is true whatever now is.
C10_ValidNeverRunIsDue ==
    (IntervalCall /\ IsZero(ev.lastRun) /\ ev.sc.Every \in ValidEvery) => ev.ret

\* C10 witness: an Interval schedule that never ran is due at a later now.
C10_Witness ==
    /\ IntervalCall /\ IsZero(ev.lastRun) /\ ev.sc.Every \in ValidEvery
    /\ ev.n = MaxSteps /\ ev.ret

\* ------------------------------------------------------------------ C11

\* The ids of a schedule list.
IDsOf(scheds) == { scheds[i].ID : i \in 1..Len(scheds) }

SchedulerIdle ==
    /\ schedules = <<>>
    /\ lastRun = EmptyMap
    /\ onUpdate = FALSE
    /\ onComplete = FALSE
    /\ started = FALSE
    /\ now = LastMinute
    /\ ticks = 0
    /\ stopped = FALSE
    /\ inflight = {}
    /\ launched = {}
    /\ updateCalls = 0
    /\ completeCalls = 0
    /\ failed = {}
    /\ ev = NoEval
    /\ mu = Nobody
    /\ chk = [pc |-> "idle", scheds |-> <<>>, last |-> EmptyMap, i |-> 1]
    /\ api = [r \in Requests |-> NoRequest]

\* The address of the next allocation (make, append to a nil slice).
NewAddr == Len(heap) + 1

\* make + copy, or make + range: a new object with the contents of heap[a].
CopyOf(a) == Append(heap, heap[a])

\* A reference the caller holds, and the call it got it from (or passed it to).
Ref(a, from) == [addr |-> a, from |-> from]

\* The objects of the heap: the backing array of a slice, or a map.
Slice(l) == [kind |-> "slice", val |-> l]

Map(m) == [kind |-> "map", val |-> m]

IsList(a) == heap[a].kind = "slice"

\* What the caller writes into a slice element or a map entry it can reach.
TamperedID == "x"

TamperedSchedule == Schedule(TamperedID, TRUE, ScheduleInterval, EveryMinute, <<>>)

\* New(runner, initial, lastRun), as main calls it: the list is copied
\* (append to a nil slice); the map, when not nil, is stored as it is.
InitAlias ==
    /\ SchedulerIdle
    /\ HubIdle
    /\ StreamIdle
    /\ \E l \in ScheduleLists : \E m \in InitialLastRuns :
          heap = <<Slice(l), Map(m), Slice(l)>>
    /\ pSchedules = 3
    /\ pLastRun = 2
    /\ held = {Ref(1, "New"), Ref(2, "New")}

SchedulesNoCopy ==
    /\ Len(heap) < 3 + MaxAllocs
    /\ held' = held \cup {Ref(pSchedules, "Schedules")}
    /\ UNCHANGED <<heap, pSchedules, pLastRun>>
    /\ UNCHANGED <<schedVars, ev, hubVars, streamVars, mu, chk, api>>

\* Schedules(): out := make(...); copy(out, s.schedules); return out
Schedules ==
    /\ Len(heap) < 3 + MaxAllocs
    /\ heap' = CopyOf(pSchedules)
    /\ held' = held \cup {Ref(NewAddr, "Schedules")}
    /\ UNCHANGED <<pSchedules, pLastRun>>
    /\ UNCHANGED <<schedVars, ev, hubVars, streamVars, mu, chk, api>>

\* LastRun(): result := make(...); for k, v := range s.lastRun { result[k] = v }
LastRun ==
    /\ Len(heap) < 3 + MaxAllocs
    /\ heap' = CopyOf(pLastRun)
    /\ held' = held \cup {Ref(NewAddr, "LastRun")}
    /\ UNCHANGED <<pSchedules, pLastRun>>
    /\ UNCHANGED <<schedVars, ev, hubVars, streamVars, mu, chk, api>>

\* SetSchedules(scheds) with a slice the caller holds:
\* s.schedules = make(...); copy(s.schedules, scheds)
SetSchedulesOf(h) ==
    /\ Len(heap) < 3 + MaxAllocs
    /\ h \in held /\ IsList(h.addr)
    /\ heap' = CopyOf(h.addr)
    /\ pSchedules' = NewAddr
    /\ held' = held \cup {Ref(h.addr, "SetSchedules")}
    /\ UNCHANGED pLastRun
    /\ UNCHANGED <<schedVars, ev, hubVars, streamVars, mu, chk, api>>

\* The caller assigns to the first element of a slice it holds.
MutateList(h) ==
    /\ h \in held /\ IsList(h.addr)
    /\ heap[h.addr].val[1] # TamperedSchedule
    /\ heap' = [heap EXCEPT ![h.addr].val[1] = TamperedSchedule]
    /\ UNCHANGED <<pSchedules, pLastRun, held>>
    /\ UNCHANGED <<schedVars, ev, hubVars, streamVars, mu, chk, api>>

\* The caller assigns to an entry of a map it holds.
MutateMap(h) ==
    /\ h \in held /\ ~IsList(h.addr)
    /\ TamperedID \notin DOMAIN heap[h.addr].val
    /\ heap' = [heap EXCEPT ![h.addr].val = Put(heap[h.addr].val, TamperedID, now)]
    /\ UNCHANGED <<pSchedules, pLastRun, held>>
    /\ UNCHANGED <<schedVars, ev, hubVars, streamVars, mu, chk, api>>

\* runOnce after a successful run of schedule id: s.lastRun[id] = now
StoreLastRun(id) ==
    /\ id \in IDsOf(heap[pSchedules].val) \ {"", TamperedID}
    /\ LastRunOf(heap[pLastRun].val, id) # now + TickPeriod
    /\ heap' = [heap EXCEPT ![pLastRun].val = Put(heap[pLastRun].val, id, now + TickPeriod)]
    /\ UNCHANGED <<pSchedules, pLastRun, held>>
    /\ UNCHANGED <<schedVars, ev, hubVars, streamVars, mu, chk, api>>

NextAlias ==
    \/ Schedules
    \/ LastRun
    \/ \E h \in held : SetSchedulesOf(h)
    \/ \E h \in held : MutateList(h)
    \/ \E h \in held : MutateMap(h)
    \/ \E id \in {"a", "b"} : StoreLastRun(id)

SpecAlias == InitAlias /\ [][NextAlias]_vars

\* ------------------------------------------------------------------ C12

\* The schedule list and the LastRun table of the Scheduler.
InternalSchedules == heap[pSchedules].val

InternalLastRun == heap[pLastRun].val

\* The references obtained from Schedules() and LastRun(), and those passed
\* to SetSchedules.
FromAccessors == { h \in held : h.from \in {"Schedules", "LastRun", "SetSchedules"} }

\* C12: a step in which the contents of a list or map the caller got from
\* Schedules() or LastRun(), or passed to SetSchedules, change (the caller
\* mutates it) leaves the Scheduler's schedule list and LastRun table as
\* they were.
C12_DefensiveCopies ==
    [][\A h \in FromAccessors :
          heap'[h.addr] # heap[h.addr] =>
              /\ heap'[pSchedules'].val = InternalSchedules
              /\ heap'[pLastRun'].val = InternalLastRun]_vars

\* The caller has mutated a list returned by Schedules(), a map returned
\* by LastRun() and a list it had passed to SetSchedules before.
C12_Witness ==
    /\ \E h \in held : /\ h.from = "Schedules"
                       /\ TamperedID \in IDsOf(heap[h.addr].val)
    /\ \E h \in held : /\ h.from = "LastRun"
                       /\ TamperedID \in DOMAIN heap[h.addr].val
    /\ \E h \in held : /\ h.from = "SetSchedules"
                       /\ TamperedID \in IDsOf(heap[h.addr].val)
                       /\ TamperedID \notin IDsOf(InternalSchedules)
    /\ TamperedID \notin DOMAIN InternalLastRun

\* ------------------------------------------------------------------ C13

\* The runOnce goroutines that return in this step, after the onComplete test.
Returning == { r \in inflight \ inflight' : r.pc = "onComplete" }

hubRest == <<schedVars, ev, aliasVars, streamVars, mu, chk, api>>

RECURSIVE Orders(_)
\* The orders in which `for _, cwm := range m.connections` can visit S.
Orders(S) ==
    IF S = {} THEN {<<>>}
    ELSE UNION { { <<c>> \o o : o \in Orders(S \ {c}) } : c \in S }

\* The writer names: the handler of the connection, or a Broadcast call.
HandlerOf(c) == <<"handler", c>>

BroadcastOf(b) == <<"broadcast", b>>

registryRemoveOrAdd(reg, c) == IF c \in reg THEN reg \ {c} ELSE reg \cup {c}

\* delete(m.connections, conn)
registryRemove(reg, c) == reg \ {c}

\* handleWebSocket: the upgrade succeeds and s.wsManager.Add(conn) registers
\* the new connection with a new connWithMutex. Connections are numbered in
\* the order in which they are added.
Add(c) ==
    /\ handler[c] = "new"
    /\ c > 1 => handler[c - 1] # "new"
    /\ connections' = connections \cup {c}
    /\ handler' = [handler EXCEPT ![c] = "status"]
    /\ UNCHANGED <<wmu, bcast, writing, delivered>>
    /\ UNCHANGED hubRest

\* WSConnectionManager.WriteJSON, first part, called by the handler for the
\* initial status or (when the ping ticker fires) for a ping: the lookup
\* under the read lock.
HandlerLookup(c) ==
    /\ handler[c] \in {"status", "loop"}
    /\ handler' = [handler EXCEPT ![c] = IF c \in connections THEN "locking" ELSE "direct"]
    /\ UNCHANGED <<connections, wmu, bcast, writing, delivered>>
    /\ UNCHANGED hubRest

\* WriteJSON, the connection was found: cwm.mu.Lock() and the write begins.
HandlerLockedWrite(c) ==
    /\ handler[c] = "locking"
    /\ wmu[c] = Nobody
    /\ wmu' = [wmu EXCEPT ![c] = HandlerOf(c)]
    /\ writing' = writing \cup {[conn |-> c, by |-> HandlerOf(c)]}
    /\ handler' = [handler EXCEPT ![c] = "writing"]
    /\ UNCHANGED <<connections, bcast, delivered>>
    /\ UNCHANGED hubRest

\* WriteJSON, the connection was not found: `return conn.WriteJSON(message)`,
\* without any lock.
HandlerDirectWrite(c) ==
    /\ handler[c] = "direct"
    /\ writing' = writing \cup {[conn |-> c, by |-> HandlerOf(c)]}
    /\ handler' = [handler EXCEPT ![c] = "writing"]
    /\ UNCHANGED <<connections, wmu, bcast, delivered>>
    /\ UNCHANGED hubRest

\* The handler's write returns (and the deferred cwm.mu.Unlock() runs, if it
\* was locked); on an error the handler returns.
HandlerWriteEnds(c, ok) ==
    /\ handler[c] = "writing"
    /\ writing' = writing \ {[conn |-> c, by |-> HandlerOf(c)]}
    /\ wmu' = IF wmu[c] = HandlerOf(c) THEN [wmu EXCEPT ![c] = Nobody] ELSE wmu
    /\ handler' = [handler EXCEPT ![c] = IF ok THEN "loop" ELSE "exit"]
    /\ UNCHANGED <<connections, bcast, delivered>>
    /\ UNCHANGED hubRest

\* The handler returns, after a failed write or when the read goroutine
\* has seen the client go away and closed done: the deferred
\* s.wsManager.Remove(conn) and conn.Close() run.
HandlerRemove(c) ==
    /\ handler[c] \in {"loop", "exit"}
    /\ connections' = registryRemove(connections, c)
    /\ handler' = [handler EXCEPT ![c] = "closed"]
    /\ UNCHANGED <<wmu, bcast, writing, delivered>>
    /\ UNCHANGED hubRest

\* Broadcast: under the read lock, the registered connections are copied
\* into conns, in the order the map iteration yields them. The calls are
\* numbered in the order in which they take their copy.
BroadcastSnapshot(b, order) ==
    /\ bcast[b].pc = "idle"
    /\ b > 1 => bcast[b - 1].pc # "idle"
    /\ order \in Orders(connections)
    /\ bcast' = [bcast EXCEPT ![b].pc = IF order = <<>> THEN "done" ELSE "locking",
                              ![b].conns = order]
    /\ UNCHANGED <<connections, wmu, handler, writing, delivered>>
    /\ UNCHANGED hubRest

\* The connection the loop `for _, cwm := range conns` of Broadcast b is at.
Current(b) == bcast[b].conns[bcast[b].i]

\* The loop of Broadcast b goes on to the next element of conns, or ends.
Continue(b) ==
    [bcast[b] EXCEPT !.i = @ + 1,
                     !.pc = IF bcast[b].i = Len(bcast[b].conns) THEN "done"
                            ELSE "locking"]

\* Broadcast, for the next cwm of conns: cwm.mu.Lock() and the write begins.
BroadcastLockedWrite(b) ==
    /\ bcast[b].pc = "locking"
    /\ wmu[Current(b)] = Nobody
    /\ wmu' = [wmu EXCEPT ![Current(b)] = BroadcastOf(b)]
    /\ writing' = writing \cup {[conn |-> Current(b), by |-> BroadcastOf(b)]}
    /\ bcast' = [bcast EXCEPT ![b].pc = "writing"]
    /\ UNCHANGED <<connections, handler, delivered>>
    /\ UNCHANGED hubRest

BroadcastWriteEndsKeepsLock(b, ok) ==
    /\ bcast[b].pc = "writing"
    /\ writing' = writing \ {[conn |-> Current(b), by |-> BroadcastOf(b)]}
    /\ wmu' = IF ok THEN [wmu EXCEPT ![Current(b)] = Nobody] ELSE wmu
    /\ delivered' = IF ok THEN [delivered EXCEPT ![b][Current(b)] = @ + 1]
                    ELSE delivered
    /\ bcast' = IF ok THEN [bcast EXCEPT ![b] = Continue(b)]
                ELSE [bcast EXCEPT ![b].pc = "remove",
                                   ![b].failed = @ \cup {Current(b)}]
    /\ UNCHANGED <<connections, handler>>
    /\ UNCHANGED hubRest

\* Broadcast: the write returns and cwm.mu.Unlock() runs. Without an error
\* the loop goes on to the next connection.
BroadcastWriteEnds(b, ok) ==
    /\ bcast[b].pc = "writing"
    /\ writing' = writing \ {[conn |-> Current(b), by |-> BroadcastOf(b)]}
    /\ wmu' = [wmu EXCEPT ![Current(b)] = Nobody]
    /\ delivered' = IF ok THEN [delivered EXCEPT ![b][Current(b)] = @ + 1]
                    ELSE delivered
    /\ bcast' = IF ok THEN [bcast EXCEPT ![b] = Continue(b)]
                ELSE [bcast EXCEPT ![b].pc = "remove",
                                   ![b].failed = @ \cup {Current(b)}]
    /\ UNCHANGED <<connections, handler>>
    /\ UNCHANGED hubRest

BroadcastRemoveAndReturn(b) ==
    /\ bcast[b].pc = "remove"
    /\ connections' = registryRemove(connections, Current(b))
    /\ bcast' = [bcast EXCEPT ![b].pc = "done"]
    /\ UNCHANGED <<wmu, handler, writing, delivered>>
    /\ UNCHANGED hubRest

\* Broadcast, after a failed write: m.Remove(cwm.conn), and the loop goes on.
BroadcastRemove(b) ==
    /\ bcast[b].pc = "remove"
    /\ connections' = registryRemove(connections, Current(b))
    /\ bcast' = [bcast EXCEPT ![b] = Continue(b)]
    /\ UNCHANGED <<wmu, handler, writing, delivered>>
    /\ UNCHANGED hubRest

NextHub ==
    \/ \E c \in Conns : Add(c)
    \/ \E c \in Conns : HandlerLookup(c)
    \/ \E c \in Conns : HandlerLockedWrite(c)
    \/ \E c \in Conns : HandlerDirectWrite(c)
    \/ \E c \in Conns : \E ok \in BOOLEAN : HandlerWriteEnds(c, ok)
    \/ \E c \in Conns : HandlerRemove(c)
    \/ \E b \in Broadcasts : \E order \in Orders(connections) : BroadcastSnapshot(b, order)
    \/ \E b \in Broadcasts : BroadcastLockedWrite(b)
    \/ \E b \in Broadcasts : \E ok \in BOOLEAN : BroadcastWriteEnds(b, ok)
    \/ \E b \in Broadcasts : BroadcastRemove(b)

\* NewServer: the manager is new (server.go:90).
InitHub ==
    /\ SchedulerIdle
    /\ AliasIdle
    /\ HubIdle
    /\ StreamIdle

SpecHub == InitHub /\ [][NextHub]_vars

\* ------------------------------------------------------------------ C14

\* The connections of the copy that Broadcast b iterates over.
SnapshotOf(b) == { bcast[b].conns[k] : k \in 1..Len(bcast[b].conns) }

WritersOf(c) == { w \in writing : w.conn = c }

\* C15: at no time are two writes to the same connection in progress.
C15_WritesSerialized == \A c \in Conns : Cardinality(WritersOf(c)) <= 1

\* ------------------------------------------------------------------ C16

\* The connections that have been registered and are registered no more.
Removed == { c \in Conns : handler[c] # "new" /\ c \notin connections }

\* The connections Remove is called with in this step: by the handler that
\* returns, or by a Broadcast after a failed write.
RemoveCalls ==
    { c \in Conns : handler[c] # "closed" /\ handler'[c] = "closed" }
    \cup { Current(b) : b \in { x \in Broadcasts :
                                   bcast[x].pc = "remove" /\ bcast'[x] # bcast[x] } }

\* C16: Remove of a connection that is not registered leaves the registry
\* as it is, and Remove of a registered one takes out that connection only;
\* a connection that has been removed is never registered again.
C16_RemovedIsTerminal ==
    [][/\ \A c \in RemoveCalls : connections' = connections \ {c}
       /\ \A c \in Removed : c \notin connections']_vars

\* Remove has been called twice for the same connection: by a Broadcast
\* whose write failed, and by the connection's handler when it returned.
C16_Witness ==
    \E c \in Conns : \E b \in Broadcasts :
        /\ handler[c] = "closed"
        /\ c \in bcast[b].failed
        /\ bcast[b].pc = "done"
        /\ c \in Removed

\* ------------------------------------------------------------------ progress session

\* What SpecStream leaves alone.
streamRest == <<schedVars, ev, aliasVars, hubVars, mu, chk, api>>

\* make(chan progressUpdate, 10)
ChanCap == 10

\* make(chan struct{...}, 1)
ResultCap == 1

\* The session id generateID() gave the request.
SessionID == "s1"

\* The events of the streaming response and of the progress response.
Started == [type |-> "started", n |-> 0]

Progress(k) == [type |-> "progress", n |-> k]

Completed == [type |-> "completed", n |-> 0]

Failed == [type |-> "error", n |-> 0]

\* What the runner returns: (result, nil), (nil, err), (nil, nil).
Outcomes == {"result", "error", "nil"}

\* The value the goroutine puts into resultCh.
FinalOf(out) ==
    [result |-> out = "result", err |-> out \in {"error", "panic", "cancelled"}]

\* ctx.Done() is closed: the client has gone, or ServeHTTP has returned.
ctxDone == clientGone \/ strm \in {"returned", "panicked"}

\* handleRunStream up to the loop: createSession, the deferred
\* removeSession is registered, the started event is written and the
\* goroutine of the run is started.
Begin ==
    /\ strm = "idle"
    /\ sessions' = sessions \cup {SessionID}
    /\ written' = Append(written, Started)
    /\ run' = [run EXCEPT !.pc = "running"]
    /\ strm' = "loop"
    /\ UNCHANGED <<progressCh, chClosed, resultCh, clientGone, obs>>
    /\ UNCHANGED streamRest

\* The client closes the streaming response.
ClientLeaves ==
    /\ strm \in {"loop", "final", "return"}
    /\ ~clientGone
    /\ clientGone' = TRUE
    /\ UNCHANGED <<sessions, progressCh, chClosed, resultCh, run, strm, written, obs>>
    /\ UNCHANGED streamRest

\* progressFn, called by the runner: the select sends the event when the
\* channel has room.
EmitSend ==
    /\ run.pc = "running" /\ run.n < MaxEvents
    /\ ~chClosed
    /\ Len(progressCh) < ChanCap
    /\ progressCh' = Append(progressCh, Progress(run.n + 1))
    /\ run' = [run EXCEPT !.n = @ + 1]
    /\ UNCHANGED <<sessions, chClosed, resultCh, clientGone, strm, written, obs>>
    /\ UNCHANGED streamRest

\* progressFn as a plain send: its select has no `case <-ctx.Done()`.
EmitDropNoCancel ==
    /\ FALSE
    /\ UNCHANGED vars

\* progressFn: the select takes `case <-ctx.Done()` and the event is lost.
EmitDrop ==
    /\ run.pc = "running" /\ run.n < MaxEvents
    /\ ctxDone
    /\ run' = [run EXCEPT !.n = @ + 1]
    /\ UNCHANGED <<sessions, progressCh, chClosed, resultCh, clientGone, strm,
                   written, obs>>
    /\ UNCHANGED streamRest

\* progressFn: the select takes the send, on a channel that removeSession
\* has closed: the send panics, which ends the runner.
EmitOnClosed ==
    /\ run.pc = "running" /\ run.n < MaxEvents
    /\ chClosed
    /\ run' = [run EXCEPT !.pc = "recover", !.out = "panic"]
    /\ UNCHANGED <<sessions, progressCh, chClosed, resultCh, clientGone, strm,
                   written, obs>>
    /\ UNCHANGED streamRest

\* s.runWithProgress returns.
RunReturns(out) ==
    /\ run.pc = "running"
    /\ run' = [run EXCEPT !.pc = "sendResult", !.out = out]
    /\ UNCHANGED <<sessions, progressCh, chClosed, resultCh, clientGone, strm,
                   written, obs>>
    /\ UNCHANGED streamRest

\* s.runWithProgress panics.
RunPanics ==
    /\ run.pc = "running"
    /\ run' = [run EXCEPT !.pc = "recover", !.out = "panic"]
    /\ UNCHANGED <<sessions, progressCh, chClosed, resultCh, clientGone, strm,
                   written, obs>>
    /\ UNCHANGED streamRest

\* s.runWithProgress(ctx, progressFn) is given the context of the request:
\* once that context is done, the network call the runner is in returns the
\* context's error and the runner returns (nil, err).
RunCancelled ==
    /\ run.pc = "running"
    /\ ctxDone
    /\ run' = [run EXCEPT !.pc = "sendResult", !.out = "cancelled"]
    /\ UNCHANGED <<sessions, progressCh, chClosed, resultCh, clientGone, strm,
                   written, obs>>
    /\ UNCHANGED streamRest

SendResultAfterClose ==
    /\ run.pc = "sendResult"
    /\ chClosed' = TRUE
    /\ run' = [run EXCEPT !.pc = "close"]
    /\ UNCHANGED <<sessions, progressCh, resultCh, clientGone, strm, written, obs>>
    /\ UNCHANGED streamRest

\* resultCh <- {result, err}
SendResult ==
    /\ run.pc = "sendResult"
    /\ Len(resultCh) < ResultCap
    /\ resultCh' = Append(resultCh, FinalOf(run.out))
    /\ run' = [run EXCEPT !.pc = "close"]
    /\ UNCHANGED <<sessions, progressCh, chClosed, clientGone, strm, written, obs>>
    /\ UNCHANGED streamRest

\* close(progressCh) by the goroutine; it panics if removeSession has closed
\* the channel before.
CloseProgress ==
    /\ run.pc = "close"
    /\ chClosed' = TRUE
    /\ run' = [run EXCEPT !.pc = IF chClosed THEN "recover" ELSE "done"]
    /\ UNCHANGED <<sessions, progressCh, resultCh, clientGone, strm, written, obs>>
    /\ UNCHANGED streamRest

\* The deferred function of the goroutine, after a panic:
\* resultCh <- {nil, fmt.Errorf("panic: %v", r)}, and the goroutine ends.
Recover ==
    /\ run.pc = "recover"
    /\ Len(resultCh) < ResultCap
    /\ resultCh' = Append(resultCh, FinalOf("panic"))
    /\ run' = [run EXCEPT !.pc = "done"]
    /\ UNCHANGED <<sessions, progressCh, chClosed, clientGone, strm, written, obs>>
    /\ UNCHANGED streamRest

\* The loop of handleRunStream: `case update, ok := <-progressCh` with ok: a
\* progress event is written.  Once the client has closed the response the
\* write fails (its error is not looked at) and nothing reaches the
\* response.
StreamReceive ==
    /\ strm = "loop"
    /\ progressCh # <<>>
    /\ written' = IF clientGone THEN written
                  ELSE Append(written, Head(progressCh))
    /\ progressCh' = Tail(progressCh)
    /\ UNCHANGED <<sessions, chClosed, resultCh, clientGone, run, strm, obs>>
    /\ UNCHANGED streamRest

\* The loop: `case update, ok := <-progressCh` with !ok.
StreamSeesClosed ==
    /\ strm = "loop"
    /\ progressCh = <<>> /\ chClosed
    /\ strm' = "final"
    /\ UNCHANGED <<sessions, progressCh, chClosed, resultCh, clientGone, run,
                   written, obs>>
    /\ UNCHANGED streamRest

\* The event written for the value read from resultCh, if any.
TerminalOf(final) ==
    IF final.err THEN <<Failed>>
    ELSE IF final.result THEN <<Completed>>
    ELSE <<>>

\* final := <-resultCh; the terminal event is written; return.
StreamFinal ==
    /\ strm = "final"
    /\ resultCh # <<>>
    /\ written' = written \o TerminalOf(Head(resultCh))
    /\ resultCh' = Tail(resultCh)
    /\ strm' = "return"
    /\ UNCHANGED <<sessions, progressCh, chClosed, clientGone, run, obs>>
    /\ UNCHANGED streamRest

\* The loop: `case <-ctx.Done(): return`.
StreamCancelled ==
    /\ strm = "loop"
    /\ ctxDone
    /\ strm' = "return"
    /\ UNCHANGED <<sessions, progressCh, chClosed, resultCh, clientGone, run,
                   written, obs>>
    /\ UNCHANGED streamRest

\* handleRunStream returns and the deferred removeSession runs: if the id is
\* in the map, close(ch) and delete(pt.sessions, id). close of a channel
\* that is closed already panics, before the delete.
removeSession ==
    /\ strm = "return"
    /\ IF SessionID \in sessions /\ chClosed
       THEN /\ strm' = "panicked"
            /\ UNCHANGED <<sessions, chClosed>>
       ELSE /\ strm' = "returned"
            /\ sessions' = sessions \ {SessionID}
            /\ chClosed' = (chClosed \/ SessionID \in sessions)
    /\ UNCHANGED <<progressCh, resultCh, clientGone, run, written, obs>>
    /\ UNCHANGED streamRest

\* handleRunProgress for the session id: getSession finds the channel or
\* the request ends with 404.
ObserverAttach ==
    /\ obs.pc = "idle"
    /\ obs' = [obs EXCEPT !.pc = IF SessionID \in sessions THEN "loop" ELSE "gone"]
    /\ UNCHANGED <<sessions, progressCh, chClosed, resultCh, clientGone, run, strm,
                   written>>
    /\ UNCHANGED streamRest

\* The loop of handleRunProgress receives an event and writes it to its
\* own response.
ObserverReceive ==
    /\ obs.pc = "loop"
    /\ Len(obs.got) < MaxObserved
    /\ progressCh # <<>>
    /\ obs' = [obs EXCEPT !.got = Append(@, Head(progressCh))]
    /\ progressCh' = Tail(progressCh)
    /\ UNCHANGED <<sessions, chClosed, resultCh, clientGone, run, strm, written>>
    /\ UNCHANGED streamRest

\* The loop of handleRunProgress returns: the channel is closed, or the
\* context of its own request is done.
ObserverReturns ==
    /\ obs.pc = "loop"
    /\ obs' = [obs EXCEPT !.pc = "gone"]
    /\ UNCHANGED <<sessions, progressCh, chClosed, resultCh, clientGone, run, strm,
                   written>>
    /\ UNCHANGED streamRest

NextStream ==
    \/ Begin
    \/ ClientLeaves
    \/ EmitSend
    \/ EmitDrop
    \/ EmitOnClosed
    \/ \E out \in Outcomes : RunReturns(out)
    \/ RunPanics
    \/ RunCancelled
    \/ SendResult
    \/ CloseProgress
    \/ Recover
    \/ StreamReceive
    \/ StreamSeesClosed
    \/ StreamFinal
    \/ StreamCancelled
    \/ removeSession
    \/ ObserverAttach
    \/ ObserverReceive
    \/ ObserverReturns

\* NewServer: the tracker is new (server.go:88).
InitStream ==
    /\ SchedulerIdle
    /\ AliasIdle
    /\ HubIdle
    /\ StreamIdle

SpecStream == InitStream /\ [][NextStream]_vars

\* ------------------------------------------------------------------ C17

\* The terminal events.
Terminal == {Completed, Failed}

\* The positions of written that hold a terminal event.
TerminalsWritten == { k \in 1..Len(written) : written[k] \in Terminal }

\* handleRunStream can take no step: it has returned, or it waits in its
\* select with nothing to receive.
StreamQuiet ==
    ~ENABLED (Begin \/ StreamReceive \/ StreamSeesClosed \/ StreamFinal
                \/ StreamCancelled \/ removeSession)

\* The goroutine of the run has ended.
RunOver == run.pc = "done"

\* C17: once the run is over, with the client still connected, and the
\* handler has done all it can do, the stream holds exactly one terminal
\* event, and that event is the last one written.
C17_OneTerminalEvent ==
    (RunOver /\ ~clientGone /\ StreamQuiet) =>
        TerminalsWritten = {Len(written)}

\* ------------------------------------------------------------------ C18

\* C18: when the runner has panicked and the goroutine has recovered and
\* ended, with the client still connected, the handler either still has a
\* step to take or has returned normally after writing the terminal error
\* event.
C18_PanicBecomesErrorEvent ==
    (RunOver /\ run.out = "panic" /\ ~clientGone /\ StreamQuiet) =>
        /\ strm = "returned"
        /\ written[Len(written)] = Failed

\* ------------------------------------------------------------------ C19

\* The progress events of a sequence of events, in their order.
ProgressOf(seq) == SelectSeq(seq, LAMBDA e : e.type = "progress")

\* Progress(1), ..., Progress(n)
Emitted(n) == [k \in 1..n |-> Progress(k)]

\* C19: the progress events of the streaming response are in the order of
\* emission, without duplicates, and when a terminal event is written with
\* the client still connected, all the events the run emitted precede it.
C19_InOrderAndComplete ==
    /\ \A j, k \in 1..Len(written) :
           (j < k /\ written[j].type = "progress" /\ written[k].type = "progress")
               => written[j].n < written[k].n
    /\ (TerminalsWritten # {} /\ ~clientGone) =>
           ProgressOf(written) = Emitted(run.n)

\* ------------------------------------------------------------------ C20

\* C20: after handleRunStream has returned, the session id is not in the
\* registry.
C20_NoSessionLeft ==
    strm \in {"returned", "panicked"} => SessionID \notin sessions

\* ------------------------------------------------------------------ C21

\* C21: the run of a request whose client has disconnected is not
\* cancelled: it never ends because the context it was given is done.
C21_RunNotCancelled ==
    clientGone => run.out # "cancelled"

\* ------------------------------------------------------------------ C26

\* A close of the session's channel has panicked: the close in
\* removeSession, or the close at the end of the goroutine (the runner
\* itself has not panicked and the goroutine is in its deferred recover).
ClosePanicked ==
    \/ strm = "panicked"
    \/ run.pc = "recover" /\ run.out # "panic"

\* C26: no close of the session's channel panics: the channel is closed at
\* most once.
C26_ClosedAtMostOnce == ~ClosePanicked

\* ------------------------------------------------------------------ C27

\* The runner is in a call of progressFn, or can make one.
InCallback == run.pc = "running" /\ run.n < MaxEvents

\* The select of progressFn can take one of its cases at once.
CallbackReady == ENABLED (EmitSend \/ EmitDrop \/ EmitOnClosed)

\* C27: a call of the progress callback that cannot end at once (the
\* channel is full and the context is not done) is waited on by a consumer
\* that can take an event: the handler is in its loop.
C27_CallbackNeverStuck ==
    (InCallback /\ ~CallbackReady) => ENABLED StreamReceive

\* The channel was full, the consumer took events and the callback sent
\* more events than the channel holds, with the client connected.
C27_Witness ==
    /\ run.n > ChanCap
    /\ Len(progressCh) = ChanCap
    /\ ~clientGone

\* ------------------------------------------------------------------ NextRunInfo

\* NextRunInfo{NextRun: nil, IntervalDuration: 0}: set is NextRun != nil.
NoNextRun == [set |-> FALSE, NextRun |-> ZeroTime, IntervalDuration |-> 0]

\* A schedule the loop leaves with `continue`.
NoCandidate == [ok |-> FALSE, t |-> ZeroTime, dur |-> 0]

intervalCandidateNoClamp(lr, t, dur) ==
    IF IsZero(lr) THEN t ELSE lr + dur

\* The Interval case once the duration is parsed: now when the schedule never
\* ran, else lastRun.Add(dur), or now if that is before now.
intervalCandidate(lr, t, dur) ==
    IF IsZero(lr) THEN t
    ELSE IF lr + dur < t THEN t ELSE lr + dur

dailyCandidateAlwaysToday(today, lr, t) ==
    today

dailyCandidateTodayUnlessRan(today, lr, t) ==
    IF t < today THEN today
    ELSE IF ~IsZero(lr) /\ sameDay(lr, t) THEN today + SecondsPerDay
    ELSE today

\* The Daily case once the time of day is parsed: today's target when now is
\* before it, else today.AddDate(0, 0, 1), in both branches of the test of
\* lastRun.
dailyCandidate(today, lr, t) ==
    IF t < today THEN today
    ELSE IF ~IsZero(lr) /\ sameDay(lr, t) THEN today + SecondsPerDay
    ELSE today + SecondsPerDay

\* The switch of the loop: the candidate of one schedule and its duration
\* (lr is `lastRun := last[sc.ID]`).
candidateOf(sc, lr, t) ==
    CASE sc.Type = ScheduleInterval ->
           IF sc.Every = <<>> THEN NoCandidate
           ELSE LET dur == ParseDuration(sc.Every)
                IN  IF ~dur.ok \/ dur.val <= 0 THEN NoCandidate
                    ELSE [ok |-> TRUE, t |-> intervalCandidate(lr, t, dur.val),
                          dur |-> dur.val]
      [] sc.Type = ScheduleDaily ->
           IF sc.TimeOfDay = <<>> THEN NoCandidate
           ELSE LET parts == Split(sc.TimeOfDay, ":")
                IN  IF Len(parts) < 2 THEN NoCandidate
                    ELSE LET hour == Atoi(parts[1])
                             min  == Atoi(parts[2])
                         IN  IF ~hour.ok \/ ~min.ok \/ ~clockInRange(hour.val, min.val)
                             THEN NoCandidate
                             ELSE [ok |-> TRUE,
                                   t |-> dailyCandidate(
                                            Date(Year(t), YearDay(t), hour.val, min.val),
                                            lr, t),
                                   dur |-> SecondsPerDay]
      [] OTHER -> NoCandidate

\* if nextTime == nil || candidate.Before(*nextTime) { ... }
keepEarliest(acc, c) ==
    IF ~acc.set \/ c.t < acc.NextRun
    THEN [set |-> TRUE, NextRun |-> c.t, IntervalDuration |-> c.dur]
    ELSE acc

\* The loop over the copy of the schedule list.
RECURSIVE nextRunLoop(_, _, _, _)
nextRunLoop(scheds, last, t, acc) ==
    IF scheds = <<>> THEN acc
    ELSE LET sc == Head(scheds)
             c  == candidateOf(sc, LastRunOf(last, sc.ID), t)
         IN  nextRunLoop(Tail(scheds), last, t,
                         IF ~launchable(sc) \/ ~c.ok THEN acc
                         ELSE keepEarliest(acc, c))

\* NextRunInfo() at the time t that time.Now() returns.
NextRunInfo(scheds, last, t) == nextRunLoop(scheds, last, t, NoNextRun)

Every1h == <<"1", "h">>

\* The first schedule of the lists NextRunInfo is called with (id "a") ...
FirstSchedules ==
    { Schedule("a", TRUE, ScheduleInterval, Every1h, <<>>),
      Schedule("a", TRUE, ScheduleInterval, Every30m, <<>>),
      Schedule("a", FALSE, ScheduleInterval, Every30m, <<>>),
      Schedule("a", TRUE, ScheduleInterval, <<"3", "0">>, <<>>),
      Schedule("a", TRUE, ScheduleDaily, <<>>, T2359),
      Schedule("", TRUE, ScheduleInterval, Every30m, <<>>) }

\* ... and the second (id "b").
SecondSchedules ==
    { Schedule("b", TRUE, ScheduleDaily, <<>>, T1430),
      Schedule("b", TRUE, ScheduleDaily, <<>>, T0000),
      Schedule("b", FALSE, ScheduleDaily, <<>>, T1430),
      Schedule("b", TRUE, ScheduleDaily, <<>>, Chars("2", "4", "0", "0")),
      Schedule("b", TRUE, ScheduleDaily, <<>>, T1430 \o <<":", "5", "9">>),
      Schedule("b", TRUE, ScheduleInterval, Every1h30m, <<>>),
      Schedule("b", TRUE, "weekly", Every30m, T1430) }

\* The schedule lists: empty, one schedule, two schedules in both orders.
NextLists ==
    {<<>>}
    \cup { <<x>> : x \in FirstSchedules \cup SecondSchedules }
    \cup { <<x, y>> : x \in FirstSchedules, y \in SecondSchedules }
    \cup { <<y, x>> : x \in FirstSchedules, y \in SecondSchedules }

\* The times of the first call: 14:29, 14:30 and 14:31 of 1 January, and
\* 23:59 of 31 December.
NextNows == {Afternoon - 2 * 60, Afternoon - 60, Afternoon, LastMinute}

\* The lastRun maps: "a" never ran, or ran 30 or 90 minutes before t; "b"
\* never ran, or ran 10 minutes or a day before t.
NextLastRuns(t) ==
    { [k \in K |-> IF k = "a" THEN t - da ELSE t - db] :
         K \in SUBSET {"a", "b"}, da \in {30 * 60, 90 * 60},
         db \in {10 * 60, SecondsPerDay} }

InitNext ==
    /\ schedules \in NextLists
    /\ now \in NextNows
    /\ lastRun \in NextLastRuns(now)
    /\ onUpdate = FALSE
    /\ onComplete = FALSE
    /\ started = FALSE
    /\ ticks = 0
    /\ stopped = FALSE
    /\ inflight = {}
    /\ launched = {}
    /\ updateCalls = 0
    /\ completeCalls = 0
    /\ failed = {}
    /\ ev = [called |-> FALSE, info |-> NoNextRun, n |-> 0]
    /\ OuterIdle

\* info := s.NextRunInfo()
EvalNextRunInfo ==
    /\ ~ev.called
    /\ ev' = [ev EXCEPT !.called = TRUE,
                        !.info = NextRunInfo(schedules, lastRun, now)]
    /\ UNCHANGED <<schedVars, outerVars>>

\* Time passes before the next call.
AdvanceNow(d) ==
    /\ ev.n < MaxSteps
    /\ now' = now + d
    /\ ev' = [ev EXCEPT !.called = FALSE, !.n = ev.n + 1]
    /\ UNCHANGED <<schedules, lastRun, onUpdate, onComplete, started, ticks,
                   stopped, inflight, launched, updateCalls, completeCalls,
                   failed, outerVars>>

NextNext ==
    \/ EvalNextRunInfo
    \/ \E d \in Deltas : AdvanceNow(d)

SpecNext == InitNext /\ [][NextNext]_vars

\* ------------------------------------------------------------------ C22

\* The duration a valid `every` of the lists of SpecNext stands for, in seconds.
PeriodOf(e) ==
    CASE e = Every1h -> 60 * 60
      [] e = Every30m -> 30 * 60
      [] e = Every1h30m -> 90 * 60

\* A schedule that is enabled and valid: it has an id and its parameters are
\* not malformed.
EnabledAndValid(sc) == sc.Enabled /\ sc.ID # "" /\ ~Malformed(sc)

\* Today's target time of a valid time of day, at the time t.
TargetAt(tod, t) == t - (t % SecondsPerDay) + SecondOfDay(tod)

\* The next-fire time of a valid schedule as the specification defines it:
\* Interval, lastRun + every or now if that is in the past (now when it never
\* ran); Daily, today's target if not yet passed, else tomorrow's.
ExpectedCandidate(sc) ==
    LET l == LastRunOf(lastRun, sc.ID)
    IN  IF sc.Type = ScheduleInterval
        THEN IF IsZero(l) \/ l + PeriodOf(sc.Every) < now THEN now
             ELSE l + PeriodOf(sc.Every)
        ELSE IF now < TargetAt(sc.TimeOfDay, now) THEN TargetAt(sc.TimeOfDay, now)
             ELSE TargetAt(sc.TimeOfDay, now) + SecondsPerDay

\* The trigger period of a valid schedule: every, or 24h.
ExpectedPeriod(sc) ==
    IF sc.Type = ScheduleInterval THEN PeriodOf(sc.Every) ELSE SecondsPerDay

\* The places of the list that hold an enabled and valid schedule.
ValidPlaces == { i \in 1..Len(schedules) : EnabledAndValid(schedules[i]) }

\* C22: when the list has an enabled and valid schedule, NextRunInfo returns
\* the earliest of the candidates of the enabled and valid schedules,
\* together with the period of a schedule that has this candidate.
C22_EarliestCandidate ==
    (ev.called /\ ValidPlaces # {}) =>
        /\ ev.info.set
        /\ \E i \in ValidPlaces :
              /\ ev.info.NextRun = ExpectedCandidate(schedules[i])
              /\ ev.info.IntervalDuration = ExpectedPeriod(schedules[i])
              /\ \A j \in ValidPlaces :
                    ExpectedCandidate(schedules[i]) <= ExpectedCandidate(schedules[j])

\* ------------------------------------------------------------------ C23

\* NextRunInfo has returned for a list of one schedule, enabled and valid.
OneValid == ev.called /\ Len(schedules) = 1 /\ ValidPlaces = {1}

\* C23: for a list of one enabled Interval schedule with a valid every, the
\* next run is lastRun + every, or now when that is before now or the
\* schedule never ran, and the period is every.
C23_IntervalCandidate ==
    (OneValid /\ schedules[1].Type = ScheduleInterval) =>
        LET l == LastRunOf(lastRun, schedules[1].ID)
            d == PeriodOf(schedules[1].Every)
        IN  /\ ev.info.set
            /\ ev.info.IntervalDuration = d
            /\ ev.info.NextRun = IF IsZero(l) \/ l + d < now THEN now ELSE l + d

\* C23 witness: every = 1h and lastRun = now - 90m give now and 1h.
C23_Witness ==
    /\ ev.called
    /\ schedules = <<Schedule("a", TRUE, ScheduleInterval, Every1h, <<>>)>>
    /\ LastRunOf(lastRun, "a") = now - 90 * 60
    /\ ev.info.set /\ ev.info.NextRun = now
    /\ ev.info.IntervalDuration = 60 * 60

\* ------------------------------------------------------------------ C24

\* C24: for a list of one enabled Daily schedule with a valid time of day,
\* the next run is today's target when now is before it and tomorrow's
\* target otherwise, whatever lastRun is, and the period is 24 hours.
C24_DailyCandidate ==
    (OneValid /\ schedules[1].Type = ScheduleDaily) =>
        LET target == TargetAt(schedules[1].TimeOfDay, now)
        IN  /\ ev.info.set
            /\ ev.info.IntervalDuration = SecondsPerDay
            /\ ev.info.NextRun = IF now < target THEN target
                                 ELSE target + SecondsPerDay

\* C24 witness: at 14:31 the 14:30 schedule has not run today, and the next
\* run is 14:30 of the next day.
C24_Witness ==
    /\ ev.called
    /\ schedules = <<Schedule("b", TRUE, ScheduleDaily, <<>>, T1430)>>
    /\ now = Afternoon
    /\ IsZero(LastRunOf(lastRun, "b"))
    /\ ev.info.set
    /\ ev.info.NextRun = Afternoon - 60 + SecondsPerDay

\* ------------------------------------------------------------------ C25

\* C25: NextRunInfo returns no next run exactly when the list has no
\* schedule that is enabled and valid.
C25_NoNextRunIff ==
    ev.called => (~ev.info.set <=> ValidPlaces = {})

\* ------------------------------------------------------------------ Scheduler.mu

\* main has called New, SetOnUpdate(saveConfig), SetOnComplete and Start; no
\* tick has been delivered.
InitLock ==
    /\ schedules \in {<<IntervalA>>, <<IntervalA, DailyMidnight>>}
    /\ lastRun \in InitialLastRuns
    /\ onUpdate = TRUE
    /\ onComplete = TRUE
    /\ started = TRUE
    /\ now \in StartTimes
    /\ ticks = 0
    /\ stopped = FALSE
    /\ inflight = {}
    /\ launched = {}
    /\ updateCalls = 0
    /\ completeCalls = 0
    /\ failed = {}
    /\ ev = NoEval
    /\ OuterIdle

\* `case now := <-ticker.C: s.check(ctx, now)` up to s.mu.Lock().
checkLock ==
    /\ ticks < MaxTicks
    /\ chk.pc = "idle"
    /\ mu = Nobody
    /\ now' = now + TickPeriod
    /\ ticks' = ticks + 1
    /\ mu' = <<"check", 0>>
    /\ chk' = [chk EXCEPT !.pc = "locked"]
    /\ UNCHANGED <<schedules, lastRun, onUpdate, onComplete, started, stopped,
                   inflight, launched, updateCalls, completeCalls, failed, ev,
                   aliasVars, hubVars, streamVars, api>>

\* check: the copies scheds and last are made and s.mu.Unlock() is called.
checkSnapshot ==
    /\ chk.pc = "locked"
    /\ chk' = [pc |-> "loop", scheds |-> schedules, last |-> lastRun, i |-> 1]
    /\ mu' = Nobody
    /\ UNCHANGED <<schedVars, ev, aliasVars, hubVars, streamVars, api>>

checkStepLive ==
    /\ chk.pc = "loop"
    /\ IF chk.i > Len(chk.scheds)
       THEN /\ chk' = [chk EXCEPT !.pc = "idle"]
            /\ UNCHANGED <<inflight, launched>>
       ELSE LET sc == chk.scheds[chk.i]
                due == /\ launchable(sc)
                       /\ shouldRun(sc, LastRunOf(lastRun, sc.ID), now)
            IN  /\ chk' = [chk EXCEPT !.i = @ + 1]
                /\ inflight' = IF due THEN inflight \cup {NewRun(sc.ID, now)}
                               ELSE inflight
                /\ launched' = IF due THEN launched \cup {<<sc.ID, now>>}
                               ELSE launched
    /\ UNCHANGED <<schedules, lastRun, onUpdate, onComplete, started, now, ticks,
                   stopped, updateCalls, completeCalls, failed, ev, mu,
                   aliasVars, hubVars, streamVars, api>>

\* check: one iteration of `for _, sc := range scheds`, or the end of the
\* loop.  The schedule is judged by the copies and the now of the tick.
checkStep ==
    /\ chk.pc = "loop"
    /\ IF chk.i > Len(chk.scheds)
       THEN /\ chk' = [chk EXCEPT !.pc = "idle"]
            /\ UNCHANGED <<inflight, launched>>
       ELSE LET sc == chk.scheds[chk.i]
                due == /\ launchable(sc)
                       /\ shouldRun(sc, LastRunOf(chk.last, sc.ID), now)
            IN  /\ chk' = [chk EXCEPT !.i = @ + 1]
                /\ inflight' = IF due THEN inflight \cup {NewRun(sc.ID, now)}
                               ELSE inflight
                /\ launched' = IF due THEN launched \cup {<<sc.ID, now>>}
                               ELSE launched
    /\ UNCHANGED <<schedules, lastRun, onUpdate, onComplete, started, now, ticks,
                   stopped, updateCalls, completeCalls, failed, ev, mu,
                   aliasVars, hubVars, streamVars, api>>

\* runOnce: s.runner(ctx) returns, with an error (logged) or with a result.
runnerReturns(r, ok) ==
    /\ r \in inflight /\ r.pc = "runner"
    /\ inflight' = IF ok THEN (inflight \ {r}) \cup
                                {[r EXCEPT !.pc = "lock", !.result = "result"]}
                   ELSE inflight \ {r}
    /\ failed' = IF ok THEN failed ELSE failed \cup {<<r.id, r.trigger>>}
    /\ UNCHANGED <<schedules, lastRun, onUpdate, onComplete, started, now, ticks,
                   stopped, launched, updateCalls, completeCalls, ev, outerVars>>

\* runOnce: s.mu.Lock()
runLock(r) ==
    /\ r \in inflight /\ r.pc = "lock"
    /\ mu = Nobody
    /\ mu' = <<r.id, r.trigger>>
    /\ inflight' = (inflight \ {r}) \cup {[r EXCEPT !.pc = "locked"]}
    /\ UNCHANGED <<schedules, lastRun, onUpdate, onComplete, started, now, ticks,
                   stopped, launched, updateCalls, completeCalls, failed, ev, chk,
                   aliasVars, hubVars, streamVars, api>>

runStoreKeepsLock(r) ==
    /\ r \in inflight /\ r.pc = "locked"
    /\ lastRun' = Put(lastRun, r.id, r.trigger)
    /\ inflight' = (inflight \ {r}) \cup
           {[r EXCEPT !.pc = "onUpdate", !.hU = onUpdate, !.hC = onComplete]}
    /\ UNCHANGED <<schedules, onUpdate, onComplete, started, now, ticks, stopped,
                   launched, updateCalls, completeCalls, failed, ev, mu, chk,
                   aliasVars, hubVars, streamVars, api>>

\* runOnce: s.lastRun[id] = now; the hooks are read; s.mu.Unlock()
runStore(r) ==
    /\ r \in inflight /\ r.pc = "locked"
    /\ lastRun' = Put(lastRun, r.id, r.trigger)
    /\ inflight' = (inflight \ {r}) \cup
           {[r EXCEPT !.pc = "onUpdate", !.hU = onUpdate, !.hC = onComplete]}
    /\ mu' = Nobody
    /\ UNCHANGED <<schedules, onUpdate, onComplete, started, now, ticks, stopped,
                   launched, updateCalls, completeCalls, failed, ev, chk,
                   aliasVars, hubVars, streamVars, api>>

\* runOnce: `if onUpdate != nil { onUpdate() }`.  The hook main installs,
\* saveConfig, calls sched.Schedules() and sched.LastRun(), which take the
\* lock.
runOnUpdate(r) ==
    /\ r \in inflight /\ r.pc = "onUpdate"
    /\ r.hU => mu = Nobody
    /\ updateCalls' = IF r.hU THEN updateCalls + 1 ELSE updateCalls
    /\ inflight' = (inflight \ {r}) \cup {[r EXCEPT !.pc = "onComplete"]}
    /\ UNCHANGED <<schedules, lastRun, onUpdate, onComplete, started, now, ticks,
                   stopped, launched, completeCalls, failed, ev, outerVars>>

\* runOnce: `if onComplete != nil && result != nil { onComplete(result) }`;
\* the goroutine returns.
runOnComplete(r) ==
    /\ r \in inflight /\ r.pc = "onComplete"
    /\ completeCalls' = IF r.hC /\ r.result # "nil" THEN completeCalls + 1
                        ELSE completeCalls
    /\ inflight' = inflight \ {r}
    /\ UNCHANGED <<schedules, lastRun, onUpdate, onComplete, started, now, ticks,
                   stopped, launched, updateCalls, failed, ev, outerVars>>

\* SetSchedules, called by the API: Lock, the list is replaced, Unlock.
lockedSetSchedules(scheds) ==
    /\ mu = Nobody
    /\ schedules' = scheds
    /\ UNCHANGED <<lastRun, onUpdate, onComplete, started, now, ticks, stopped,
                   inflight, launched, updateCalls, completeCalls, failed, ev,
                   outerVars>>

NextLock ==
    \/ checkLock
    \/ checkSnapshot
    \/ checkStep
    \/ \E r \in inflight : \E ok \in BOOLEAN : runnerReturns(r, ok)
    \/ \E r \in inflight : runLock(r)
    \/ \E r \in inflight : runStore(r)
    \/ \E r \in inflight : runOnUpdate(r)
    \/ \E r \in inflight : runOnComplete(r)
    \/ \E scheds \in ScheduleLists : lockedSetSchedules(scheds)

SpecLock == InitLock /\ [][NextLock]_vars

\* ------------------------------------------------------------------ C28

\* The runs launched by the tick of time now.
LaunchedNow == { l \in launched : l[2] = now }

\* C28: while check holds the lock, the list and the LastRun table do not
\* change, so the copies are of one moment; and when the loop of check has
\* ended, the runs the tick has launched are those of the schedules of the
\* copies that were due at the tick's now, whatever SetSchedules and the
\* runs did to the Scheduler in between.
C28_OneSnapshotPerTick ==
    /\ []((chk.pc = "idle" /\ ticks > 0) =>
             LaunchedNow = { <<id, now>> :
                               id \in dueIds(chk.scheds, chk.last, inflight, now) })
    /\ [][/\ mu = <<"check", 0>> => (schedules' = schedules /\ lastRun' = lastRun)
          /\ (chk.pc = "locked" /\ chk'.pc = "loop") =>
                (chk'.scheds = schedules /\ chk'.last = lastRun)]_vars

\* C28 witness: in the loop of check, after the first schedule was launched,
\* the list and the LastRun table are no longer those of the copies, and the
\* second schedule is still to be judged.
C28_Witness ==
    /\ chk.pc = "loop" /\ chk.i = 2 /\ Len(chk.scheds) = 2
    /\ LaunchedNow # {}
    /\ schedules # chk.scheds
    /\ lastRun # chk.last

\* ------------------------------------------------------------------ C29

\* The goroutine of run r holds the lock.
HeldBy(r) == mu = <<r.id, r.trigger>>

\* C29: a goroutine of runOnce that is in the runner or in a hook does not
\* hold the lock; in a hook, the LastRun entry of its schedule is set; and
\* whoever holds the lock can go on to release it without waiting for
\* anything.
C29_HooksOutsideLock ==
    /\ \A r \in inflight :
          /\ r.pc \in {"runner", "onUpdate", "onComplete"} => ~HeldBy(r)
          /\ r.pc \in {"onUpdate", "onComplete"} =>
                ~IsZero(LastRunOf(lastRun, r.id))
    /\ mu # Nobody => ENABLED (checkSnapshot \/ \E r \in inflight : runStore(r))

\* C29 witness: the onUpdate hook of a run has been called and has
\* returned, while another goroutine holds the lock.
C29_Witness ==
    /\ updateCalls > 0
    /\ \E r \in inflight : r.pc = "onComplete" /\ r.hU
    /\ mu # Nobody

\* ------------------------------------------------------------------ C30

\* Goroutine g holds the write-lock of some connection.
HoldsWriteLock(g) == \E c \in Conns : wmu[c] = g

\* A step in which the handler of c takes the registry lock: Add, the
\* lookup of WriteJSON, Remove.
HandlerRegistryStep(c) ==
    handler[c] \in {"new", "status", "loop", "exit"} /\ handler'[c] # handler[c]

\* A step in which Broadcast b takes the registry lock: the copy, Remove.
BroadcastRegistryStep(b) ==
    bcast[b].pc \in {"idle", "remove"} /\ bcast'[b] # bcast[b]

\* C30: a goroutine that takes the registry lock holds no write-lock, and
\* the holder of a write-lock can always go on to release it: it waits for
\* no lock.
C30_NoNestedLocks ==
    /\ [](\A c \in Conns :
             /\ wmu[c] = HandlerOf(c) =>
                   ENABLED (\E ok \in BOOLEAN : HandlerWriteEnds(c, ok))
             /\ \A b \in Broadcasts :
                   wmu[c] = BroadcastOf(b) =>
                       ENABLED (\E ok \in BOOLEAN : BroadcastWriteEnds(b, ok)))
    /\ [][/\ \A c \in Conns :
                HandlerRegistryStep(c) => ~HoldsWriteLock(HandlerOf(c))
          /\ \A b \in Broadcasts :
                BroadcastRegistryStep(b) => ~HoldsWriteLock(BroadcastOf(b))]_vars

\* C30 witness: a Broadcast has called Remove after a failed write and goes
\* on, while a handler holds the write-lock of its connection and another
\* Broadcast waits for that lock.
C30_Witness ==
    /\ \E b \in Broadcasts : bcast[b].failed # {} /\ bcast[b].pc # "remove"
    /\ \E c \in Conns :
          /\ wmu[c] = HandlerOf(c)
          /\ \E b \in Broadcasts : bcast[b].pc = "locking" /\ Current(b) = c

------------------------------------------------------------------------------
\* The life of a connection, with the root context of the process.

\* signal.NotifyContext: SIGINT or SIGTERM cancels the root context, and
\* main goes on from `<-ctx.Done()` to srv.Shutdown. handleWebSocket has no
\* case for any context: its loop selects on done and on the ping ticker
\* only, and Shutdown does not close a hijacked connection.
RootCancelled ==
    /\ ~stopped
    /\ stopped' = TRUE
    /\ UNCHANGED <<schedules, lastRun, onUpdate, onComplete, started, now, ticks, inflight,
                   launched, updateCalls, completeCalls, failed, ev, outerVars>>

NextHubLive ==
    \/ NextHub
    \/ RootCancelled

\* What the Go scheduler and the ping ticker guarantee: a goroutine that can
\* take its next step takes it, a write returns, and the ticker fires again.
\* That the client goes away (HandlerRemove from the loop) is not promised.
HubFairness ==
    /\ \A c \in Conns :
          /\ WF_vars(HandlerLookup(c))
          /\ WF_vars(HandlerLockedWrite(c))
          /\ WF_vars(HandlerDirectWrite(c))
          /\ WF_vars(\E ok \in BOOLEAN : HandlerWriteEnds(c, ok))
          /\ WF_vars(handler[c] = "exit" /\ HandlerRemove(c))
    /\ \A b \in Broadcasts :
          /\ WF_vars(BroadcastLockedWrite(b))
          /\ WF_vars(\E ok \in BOOLEAN : BroadcastWriteEnds(b, ok))
          /\ WF_vars(BroadcastRemove(b))

SpecHubLive == InitHub /\ [][NextHubLive]_vars /\ HubFairness

\* Connection c is Closing after a write error: its handler is about to
\* return, or a Broadcast is about to call Remove for it.
ClosingOnError(c) ==
    \/ handler[c] = "exit"
    \/ \E b \in Broadcasts : bcast[b].pc = "remove" /\ Current(b) = c

\* Connection c is Closing: after a write error, or because the context was
\* cancelled while it is registered.
Closing(c) ==
    \/ ClosingOnError(c)
    \/ stopped /\ c \in connections

\* C31: every connection that enters Closing (on a write error or on the
\* cancellation of the context; a read error closes and removes in one step
\* of the model) is eventually removed from the registry.
C31_ClosingIsRemoved ==
    \A c \in Conns : Closing(c) ~> (c \notin connections)

------------------------------------------------------------------------------
\* The consumers of a session's channel.

\* The events some request has received from the channel and not written to
\* the streaming response that started the run.
TakenByOthers == obs.got

\* C32: only the streaming response that started the run receives from the
\* session's channel: no other request takes an event, and while the client
\* is connected every emitted event is written to that response or still
\* waits in the channel for it.
C32_SingleConsumer ==
    /\ TakenByOthers = <<>>
    /\ ~clientGone => ProgressOf(written) \o progressCh = Emitted(run.n)

------------------------------------------------------------------------------
\* The arguments of New.

\* The list and the map the caller passed to New and still holds.
FromNew == { h \in held : h.from = "New" }

\* C33: the LastRun table is not aliased at construction: a step that changes
\* the map (or the list) that was passed to New leaves the Scheduler's
\* tables as they were, and a step that changes the Scheduler's LastRun
\* table leaves what was passed to New as it was.
C33_NoAliasAtNew ==
    [][\A h \in FromNew :
          /\ heap'[h.addr] # heap[h.addr] =>
                /\ heap'[pSchedules'].val = InternalSchedules
                /\ heap'[pLastRun'].val = InternalLastRun
          /\ heap'[pLastRun'].val # InternalLastRun =>
                heap'[h.addr] = heap[h.addr]]_vars

------------------------------------------------------------------------------
\* The order of the completions of overlapping runs.

\* C34: LastRun[id] never moves backwards: no step replaces an entry by an
\* earlier time (or drops it).
C34_LastRunMonotonic ==
    [][\A id \in DOMAIN lastRun :
          /\ id \in DOMAIN lastRun'
          /\ lastRun'[id] >= lastRun[id]]_vars

------------------------------------------------------------------------------
\* The end of the goroutine of the run.

\* The goroutine is blocked in a send on resultCh that nothing will ever
\* receive: the buffer is full and handleRunStream, the only receiver, has
\* returned.
GoroutineStuck ==
    /\ run.pc \in {"sendResult", "recover"}
    /\ Len(resultCh) = ResultCap
    /\ strm \in {"returned", "panicked"}

\* C35: once the runner has returned or panicked, the goroutine of the run
\* is never left blocked forever, also when the handler has returned.
C35_RunGoroutineTerminates == ~GoroutineStuck

------------------------------------------------------------------------------
\* Sends on the session's channel.

\* C36: the progress callback never sends on a channel that has been closed:
\* no step is a send of progressFn on the closed channel.
C36_NoSendOnClosed == [][~EmitOnClosed]_vars

------------------------------------------------------------------------------
\* The order of the result and of the close.

\* C37: the final result is published before the progress channel is closed
\* by the run: whenever the handler has seen the channel closed, resultCh
\* holds a value and the read of the final result does not block.
C37_ResultBeforeClose == strm = "final" => resultCh # <<>>

\* C37 witness: the run has emitted events, published its result, closed
\* the channel and ended, and the handler, having received every event, has
\* seen the channel closed and is about to read the result.
C37_Witness ==
    /\ strm = "final"
    /\ run.pc = "done" /\ run.n > 0
    /\ ~clientGone
    /\ ProgressOf(written) = Emitted(run.n)

------------------------------------------------------------------------------
\* The schedules API: handleSchedules (POST) and handleScheduleByID (PUT,
\* DELETE).  A handler reads the list with Schedules() and later replaces it
\* with SetSchedules; each of the two calls takes Scheduler.mu for itself,
\* and nothing is held in between.  The configuration file that saveConfig
\* writes after SetSchedules is not part of the state.

\* What SpecAPI leaves alone.
apiRest == <<lastRun, onUpdate, onComplete, started, now, ticks, stopped, inflight,
             launched, updateCalls, completeCalls, failed, ev, aliasVars, hubVars,
             streamVars, mu, chk>>

\* generateID(): the clock in nanoseconds, as a decimal string.  The
\* requests of the model read different values of the clock.
generateID(r) == IF r = 1 THEN "n1" ELSE IF r = 2 THEN "n2" ELSE "n3"

\* The id in the path of request r for /api/schedules/{id}.
PathID(r) == IF r = 1 THEN "a" ELSE IF r = 2 THEN "b" ELSE "c"

\* The schedule request r posts, with `sc.ID = generateID()`.
Posted(r) == Schedule(generateID(r), TRUE, ScheduleInterval, EveryMinute, <<>>)

\* The schedule request r puts, with `upd.ID = id`.
PutBody(r) == Schedule(PathID(r), FALSE, ScheduleInterval, EveryMinute, <<>>)

\* POST, PUT or DELETE: `cur := s.sched.Schedules()`, a copy of the list.
readSchedules(r, method) ==
    /\ api[r].pc = "idle"
    /\ api' = [api EXCEPT ![r] = [pc |-> "read", method |-> method, cur |-> schedules]]
    /\ UNCHANGED schedules
    /\ UNCHANGED apiRest

\* POST: cur = append(cur, sc); s.sched.SetSchedules(cur); 201.
postSchedule(r) ==
    /\ api[r].pc = "read" /\ api[r].method = "POST"
    /\ schedules' = Append(api[r].cur, Posted(r))
    /\ api' = [api EXCEPT ![r].pc = "ok"]
    /\ UNCHANGED apiRest

\* PUT: the element of cur with the id is replaced; without one, 404;
\* s.sched.SetSchedules(cur); 200.
putSchedule(r) ==
    /\ api[r].pc = "read" /\ api[r].method = "PUT"
    /\ IF PathID(r) \in IDsOf(api[r].cur)
       THEN /\ schedules' = [i \in 1..Len(api[r].cur) |->
                                IF api[r].cur[i].ID = PathID(r)
                                   /\ \A j \in 1..(i - 1) : api[r].cur[j].ID # PathID(r)
                                THEN PutBody(r) ELSE api[r].cur[i]]
            /\ api' = [api EXCEPT ![r].pc = "ok"]
       ELSE /\ api' = [api EXCEPT ![r].pc = "notfound"]
            /\ UNCHANGED schedules
    /\ UNCHANGED apiRest

\* DELETE: the elements of cur with the id are left out; without one, 404;
\* s.sched.SetSchedules(out); 204.
deleteSchedule(r) ==
    /\ api[r].pc = "read" /\ api[r].method = "DELETE"
    /\ IF PathID(r) \in IDsOf(api[r].cur)
       THEN /\ schedules' = SelectSeq(api[r].cur, LAMBDA sc : sc.ID # PathID(r))
            /\ api' = [api EXCEPT ![r].pc = "ok"]
       ELSE /\ api' = [api EXCEPT ![r].pc = "notfound"]
            /\ UNCHANGED schedules
    /\ UNCHANGED apiRest

NextAPI ==
    \/ \E r \in Requests : \E method \in {"POST", "PUT", "DELETE"} : readSchedules(r, method)
    \/ \E r \in Requests : postSchedule(r)
    \/ \E r \in Requests : putSchedule(r)
    \/ \E r \in Requests : deleteSchedule(r)

\* The scheduler holds the list of the configuration file; no request for
\* the schedules API has arrived.
InitAPI ==
    /\ schedules \in {<<IntervalA>>, <<IntervalA, DailyMidnight>>}
    /\ lastRun \in InitialLastRuns
    /\ onUpdate = TRUE
    /\ onComplete = TRUE
    /\ started = TRUE
    /\ now \in StartTimes
    /\ ticks = 0
    /\ stopped = FALSE
    /\ inflight = {}
    /\ launched = {}
    /\ updateCalls = 0
    /\ completeCalls = 0
    /\ failed = {}
    /\ ev = NoEval
    /\ OuterIdle

SpecAPI == InitAPI /\ [][NextAPI]_vars

\* The schedule list shows what request r has done.
Reflected(r) ==
    CASE api[r].method = "POST" -> Posted(r) \in { schedules[i] : i \in 1..Len(schedules) }
      [] api[r].method = "PUT" -> PutBody(r) \in { schedules[i] : i \in 1..Len(schedules) }
      [] api[r].method = "DELETE" -> PathID(r) \notin IDsOf(schedules)
      [] OTHER -> TRUE

\* C38: no update is lost: once every request has reported success (they act
\* on different schedules), the schedule list reflects each of them.
C38_NoLostUpdate ==
    (\A r \in Requests : api[r].pc = "ok") => \A r \in Requests : Reflected(r)

------------------------------------------------------------------------------
\* The writes of Broadcast and the registry.

\* The connections to which a Broadcast begins a write in this step.
BroadcastWritesTo ==
    { Current(b) : b \in { x \in Broadcasts :
                              bcast[x].pc = "locking" /\ bcast'[x].pc = "writing" } }

\* C39: Broadcast never writes to a connection that, at the moment of the
\* write, has been removed from the registry.
C39_NoWriteToRemoved == [][BroadcastWritesTo \subseteq connections]_vars

------------------------------------------------------------------------------
\* NextRunInfo and the time it sampled.

\* The candidates NextRunInfo computes for the schedules it does not skip.
CandidatesNow ==
    { candidateOf(schedules[i], LastRunOf(lastRun, schedules[i].ID), now) :
         i \in { j \in 1..Len(schedules) : launchable(schedules[j]) } }

\* C40: NextRunInfo never returns a next run before the now it sampled: the
\* candidate of every schedule it considers is at or after now, and so is
\* the time it returns.
C40_NeverBeforeNow ==
    ev.called =>
        /\ \A c \in CandidatesNow : c.ok => c.t >= now
        /\ ev.info.set => ev.info.NextRun >= now

\* C40 witness: at 14:31, an interval schedule is overdue (it ran 90
\* minutes ago, every 30m) and the daily target 14:30 has passed: the next
\* run is now, not a time in the past.
C40_Witness ==
    /\ ev.called
    /\ schedules = <<Schedule("a", TRUE, ScheduleInterval, Every30m, <<>>),
                     Schedule("b", TRUE, ScheduleDaily, <<>>, T1430)>>
    /\ now = Afternoon
    /\ LastRunOf(lastRun, "a") = now - 90 * 60
    /\ ev.info.set /\ ev.info.NextRun = now

====
